---- MODULE Spec2Model ----
(***************************************************************************)
(* Model of the Tetris engine: BoardManager, tetromino utilities with the  *)
(* 7-bag, TetrominoManager, ScoreManager and GameEngine, driven by the     *)
(* host (requestAnimationFrame callbacks, direct calls, InputHandler).     *)
(***************************************************************************)
EXTENDS Integers, Sequences, FiniteSets, TLC

(* ------------------------------------------------------------------ *)
(* Bounds of the model and the configuration of the modelled engine    *)
(* ------------------------------------------------------------------ *)

\* board size handed to the GameEngine constructor (config.boardWidth/Height)
boardWidth == 4
boardHeight == 4

\* the engine configuration of the integration tests
initialFallSpeed == 100
softDropSpeed == 50
lockDelay == 100

\* ScoreManager defaults (the engine constructs it without arguments)
linesPerLevel == 10
initialLevel == 1
minimumFallSpeed == 50

\* the browser runs an animation frame every Quantum ms, MaxFrames times at most
Quantum == softDropSpeed
MaxFrames == 4
\* at most this many requestAnimationFrame callbacks are pending at once
MaxPending == 2
\* the bag is filled with the first MaxKinds of the seven tetromino types
MaxKinds == 2
\* the player presses at most this many game keys
MaxKeys == 1
\* the host writes blocks into the board only while it holds fewer than this many
MaxHostBlocks == 1
\* an operation is called when the last frame ran or up to MaxLate frame times later
MaxLate == 2
\* the number of settings in an option object
MaxOptions == 2
\* the valid number supplied for a setting
SuppliedValue == 3
\* the draws made from the piece bag on its own
MaxDraws == 6
\* addScore is called while fewer than this many lines are cleared
MaxLines == 22

\* null: a value comparable with every tetromino, cell and snapshot
NULL == [null |-> TRUE]

\* the null of animationFrameId; every requestAnimationFrame id is positive
NoFrame == 0

(* ------------------------------------------------------------------ *)
(* tetrominoes.js                                                      *)
(* ------------------------------------------------------------------ *)

ALL_TETROMINO_TYPES == <<"I", "O", "T", "S", "Z", "J", "L">>

TETROMINO_TYPES == {ALL_TETROMINO_TYPES[i] : i \in 1..Len(ALL_TETROMINO_TYPES)}

MAX_ROTATION_STATE == 3

TETROMINO_COLORS ==
    [t \in TETROMINO_TYPES |->
        CASE t = "I" -> "#00F5FF"
          [] t = "O" -> "#FFD700"
          [] t = "T" -> "#9932CC"
          [] t = "S" -> "#32CD32"
          [] t = "Z" -> "#FF4500"
          [] t = "J" -> "#1E90FF"
          [] t = "L" -> "#FF8C00"]

\* shape[rotation + 1][row + 1][col + 1]
TETROMINO_SHAPES ==
    [t \in TETROMINO_TYPES |->
        CASE t = "I" -> << << <<0,0,0,0>>, <<1,1,1,1>>, <<0,0,0,0>>, <<0,0,0,0>> >>,
                           << <<0,0,1,0>>, <<0,0,1,0>>, <<0,0,1,0>>, <<0,0,1,0>> >>,
                           << <<0,0,0,0>>, <<0,0,0,0>>, <<1,1,1,1>>, <<0,0,0,0>> >>,
                           << <<0,1,0,0>>, <<0,1,0,0>>, <<0,1,0,0>>, <<0,1,0,0>> >> >>
          [] t = "O" -> << << <<0,0,0,0>>, <<0,1,1,0>>, <<0,1,1,0>>, <<0,0,0,0>> >>,
                           << <<0,0,0,0>>, <<0,1,1,0>>, <<0,1,1,0>>, <<0,0,0,0>> >>,
                           << <<0,0,0,0>>, <<0,1,1,0>>, <<0,1,1,0>>, <<0,0,0,0>> >>,
                           << <<0,0,0,0>>, <<0,1,1,0>>, <<0,1,1,0>>, <<0,0,0,0>> >> >>
          [] t = "T" -> << << <<0,0,0,0>>, <<0,1,0,0>>, <<1,1,1,0>>, <<0,0,0,0>> >>,
                           << <<0,0,0,0>>, <<0,1,0,0>>, <<0,1,1,0>>, <<0,1,0,0>> >>,
                           << <<0,0,0,0>>, <<0,0,0,0>>, <<1,1,1,0>>, <<0,1,0,0>> >>,
                           << <<0,0,0,0>>, <<0,1,0,0>>, <<1,1,0,0>>, <<0,1,0,0>> >> >>
          [] t = "S" -> << << <<0,0,0,0>>, <<0,1,1,0>>, <<1,1,0,0>>, <<0,0,0,0>> >>,
                           << <<0,0,0,0>>, <<0,1,0,0>>, <<0,1,1,0>>, <<0,0,1,0>> >>,
                           << <<0,0,0,0>>, <<0,0,0,0>>, <<0,1,1,0>>, <<1,1,0,0>> >>,
                           << <<0,0,0,0>>, <<1,0,0,0>>, <<1,1,0,0>>, <<0,1,0,0>> >> >>
          [] t = "Z" -> << << <<0,0,0,0>>, <<1,1,0,0>>, <<0,1,1,0>>, <<0,0,0,0>> >>,
                           << <<0,0,0,0>>, <<0,0,1,0>>, <<0,1,1,0>>, <<0,1,0,0>> >>,
                           << <<0,0,0,0>>, <<0,0,0,0>>, <<1,1,0,0>>, <<0,1,1,0>> >>,
                           << <<0,0,0,0>>, <<0,1,0,0>>, <<1,1,0,0>>, <<1,0,0,0>> >> >>
          [] t = "J" -> << << <<0,0,0,0>>, <<1,0,0,0>>, <<1,1,1,0>>, <<0,0,0,0>> >>,
                           << <<0,0,0,0>>, <<0,1,1,0>>, <<0,1,0,0>>, <<0,1,0,0>> >>,
                           << <<0,0,0,0>>, <<0,0,0,0>>, <<1,1,1,0>>, <<0,0,1,0>> >>,
                           << <<0,0,0,0>>, <<0,1,0,0>>, <<0,1,0,0>>, <<1,1,0,0>> >> >>
          [] t = "L" -> << << <<0,0,0,0>>, <<0,0,1,0>>, <<1,1,1,0>>, <<0,0,0,0>> >>,
                           << <<0,0,0,0>>, <<0,1,0,0>>, <<0,1,0,0>>, <<0,1,1,0>> >>,
                           << <<0,0,0,0>>, <<0,0,0,0>>, <<1,1,1,0>>, <<1,0,0,0>> >>,
                           << <<0,0,0,0>>, <<1,1,0,0>>, <<0,1,0,0>>, <<0,1,0,0>> >> >>]

(* ------------------------------------------------------------------ *)
(* tetrominoUtils.js                                                   *)
(* ------------------------------------------------------------------ *)

\* a tetromino is [type, x, y, rotation]; its colour and shape fields are
\* TETROMINO_COLORS[type] and TETROMINO_SHAPES[type][rotation + 1]
createTetromino(type, x, y, rotation) ==
    [type |-> type, x |-> x, y |-> y, rotation |-> rotation]

cloneTetromino(tetromino) == tetromino

rotateTetromino(tetromino) ==
    [tetromino EXCEPT !.rotation = (tetromino.rotation + 1) % (MAX_ROTATION_STATE + 1)]

moveTetromino(tetromino, deltaX, deltaY) ==
    [tetromino EXCEPT !.x = tetromino.x + deltaX, !.y = tetromino.y + deltaY]

\* the filled cells of each (type, rotation), relative to the anchor
ShapeBlocks ==
    [t \in TETROMINO_TYPES |->
        [r \in 0..MAX_ROTATION_STATE |->
            {<<col, row>> \in (0..3) \X (0..3) :
                TETROMINO_SHAPES[t][r + 1][row + 1][col + 1] = 1}]]

getTetrominoBlocks(tetromino) ==
    {[x |-> tetromino.x + b[1], y |-> tetromino.y + b[2]] :
        b \in ShapeBlocks[tetromino.type][tetromino.rotation]}

\* The 7-bag.  generatePieceBag shuffles all seven types with Math.random
\* (Fisher-Yates reaches every permutation) and getRandomTetrominoType pops
\* from it; the order of the bag is observed only through pop(), so the bag
\* is kept as the set of types still in it and each pop resolves one of them.
generatePieceBag == {ALL_TETROMINO_TYPES[i] : i \in 1..MaxKinds}

\* the bag getRandomTetrominoType pops from (refilled when empty)
bagBeforePop(bag) == IF bag = {} THEN generatePieceBag ELSE bag

\* getRandomTetrominoType: the bag left after popping type k
\* a draw that leaves the drawn kind in the bag
getRandomTetrominoTypeKeeping(bag, k) == bagBeforePop(bag)

getRandomTetrominoType(bag, k) == bagBeforePop(bag) \ {k}

resetPieceBag == {}

(* ------------------------------------------------------------------ *)
(* boardManager.js                                                     *)
(* ------------------------------------------------------------------ *)

\* the board is board[row + 1][col + 1], a cell is NULL or {type, color}
emptyRow == [col \in 1..boardWidth |-> NULL]

initializeBoard == [row \in 1..boardHeight |-> emptyRow]

isWithinBounds(x, y) == x >= 0 /\ x < boardWidth /\ y >= 0 /\ y < boardHeight

isOccupied(board, x, y) ==
    IF ~isWithinBounds(x, y) THEN TRUE ELSE board[y + 1][x + 1] # NULL

isValidPosition(board, tetromino) ==
    \A block \in getTetrominoBlocks(tetromino) :
        /\ isWithinBounds(block.x, block.y)
        /\ ~isOccupied(board, block.x, block.y)

canMove(board, tetromino, deltaX, deltaY) ==
    isValidPosition(board,
        [tetromino EXCEPT !.x = tetromino.x + deltaX, !.y = tetromino.y + deltaY])

canMoveDown(board, tetromino) == canMove(board, tetromino, 0, 1)

canRotate(board, rotatedTetromino) == isValidPosition(board, rotatedTetromino)

\* placePiece that writes the cells of the piece without validating its position
placePieceUnchecked(board, tetromino) ==
    [ok |-> TRUE,
     board |-> [row \in 1..boardHeight |-> [col \in 1..boardWidth |->
            IF [x |-> col - 1, y |-> row - 1] \in getTetrominoBlocks(tetromino)
            THEN [type |-> tetromino.type, color |-> TETROMINO_COLORS[tetromino.type]]
            ELSE board[row][col]]]]

\* placePiece: [ok, board]
placePiece(board, tetromino) ==
    IF ~isValidPosition(board, tetromino)
    THEN [ok |-> FALSE, board |-> board]
    ELSE [ok |-> TRUE,
          board |-> [row \in 1..boardHeight |-> [col \in 1..boardWidth |->
                IF [x |-> col - 1, y |-> row - 1] \in getTetrominoBlocks(tetromino)
                THEN [type |-> tetromino.type, color |-> TETROMINO_COLORS[tetromino.type]]
                ELSE board[row][col]]]]

isRowComplete(board, row) ==
    IF row < 0 \/ row >= boardHeight THEN FALSE
    ELSE \A col \in 1..boardWidth : board[row + 1][col] # NULL

RowIndices == [i \in 1..boardHeight |-> i - 1]

findCompleteRows(board) == SelectSeq(RowIndices, LAMBDA row : isRowComplete(board, row))

\* clearLines: [count, rows, board]
\* a new board with the rows kept at the top and the empty rows below them
newBoardEmptyBelow(board, completeRows, kept) ==
    [i \in 1..boardHeight |->
        IF i <= Len(kept) THEN board[kept[i] + 1] ELSE emptyRow]

\* the new board of clearLines: an empty row for each complete row, then the rows kept
newBoard(board, completeRows, kept) ==
    [i \in 1..boardHeight |->
        IF i <= Len(completeRows) THEN emptyRow
        ELSE board[kept[i - Len(completeRows)] + 1]]

\* the result of clearLines for the complete rows found
lineClearResult(board, completeRows) ==
    IF Len(completeRows) = 0
    THEN [count |-> 0, rows |-> << >>, board |-> board]
    ELSE [count |-> Len(completeRows), rows |-> completeRows,
          board |-> newBoard(board, completeRows,
                        SelectSeq(RowIndices, LAMBDA row : ~isRowComplete(board, row)))]

\* clearLines: [count, rows, board]
clearLines(board) == lineClearResult(board, findCompleteRows(board))

Min2(a, b) == IF a < b THEN a ELSE b

getFilledBlockCount(board) ==
    Cardinality({cell \in (1..boardHeight) \X (1..boardWidth) :
                    board[cell[1]][cell[2]] # NULL})

isGameOver(board) ==
    \E row \in 0..(Min2(2, boardHeight) - 1) :
        \E col \in 1..boardWidth : board[row + 1][col] # NULL

(* ------------------------------------------------------------------ *)
(* scoreManager.js                                                     *)
(* ------------------------------------------------------------------ *)

\* JavaScript values: a number that is an integer, a string, undefined
Num(n) == [t |-> "number", v |-> n]

Text == [t |-> "string", v |-> 0]

Undefined == [t |-> "undefined", v |-> 0]

\* the number n + 1/2, and NaN
PlusHalf(n) == [t |-> "number", v |-> n, more |-> "half"]

NaN == [t |-> "number", v |-> 0, more |-> "NaN"]

getBaseScore(n) ==
    CASE n = 1 -> 100
      [] n = 2 -> 300
      [] n = 3 -> 500
      [] n = 4 -> 800
      [] OTHER -> 0

updateLineClearingStats(byType, n) ==
    CASE n = 1 -> [byType EXCEPT !.single = @ + 1]
      [] n = 2 -> [byType EXCEPT !.double = @ + 1]
      [] n = 3 -> [byType EXCEPT !.triple = @ + 1]
      [] n = 4 -> [byType EXCEPT !.tetris = @ + 1]
      [] OTHER -> byType

\* updateLevel that rounds the quotient up
updateLevelRoundingUp(lines) ==
    ((lines + linesPerLevel - 1) \div linesPerLevel) + initialLevel

updateLevel(lines) == (lines \div linesPerLevel) + initialLevel

scoreReset(s) ==
    [s EXCEPT !.score = 0, !.level = initialLevel, !.linesCleared = 0,
              !.totalPiecesPlaced = 0,
              !.linesClearedByType = [single |-> 0, double |-> 0, triple |-> 0, tetris |-> 0]]

\* the validation of addScore with the non-integer check left out
invalidLineCountInteger(linesCleared) ==
    \/ linesCleared.t # "number"
    \/ linesCleared = NaN
    \/ linesCleared.v < 1
    \/ linesCleared.v > 4

\* the validation of addScore: typeof is not number, NaN, below 1, above 4, not
\* an integer; n + 1/2 is below 1 when n is, and above 4 when n is at least 4
invalidLineCount(linesCleared) ==
    \/ linesCleared.t # "number"
    \/ linesCleared = NaN
    \/ linesCleared.v < 1
    \/ (IF linesCleared = PlusHalf(linesCleared.v)
        THEN linesCleared.v >= 4 ELSE linesCleared.v > 4)
    \/ linesCleared = PlusHalf(linesCleared.v)

\* addScore(linesCleared) on the engine's score fields: [points, s]
addScoreCall(s, linesCleared) ==
    IF invalidLineCount(linesCleared) THEN [points |-> 0, s |-> s]
    ELSE [points |-> getBaseScore(linesCleared.v) * s.level,
          s |-> [s EXCEPT !.score = @ + getBaseScore(linesCleared.v) * s.level,
                          !.linesCleared = @ + linesCleared.v,
                          !.linesClearedByType = updateLineClearingStats(@, linesCleared.v),
                          !.level = updateLevel(s.linesCleared + linesCleared.v)]]

\* addScore called with the integer n, as the engine calls it
addScore(s, n) == addScoreCall(s, Num(n)).s

addPiecePlacement(s) == [s EXCEPT !.totalPiecesPlaced = @ + 1]

RECURSIVE Pow(_, _)
Pow(b, e) == IF e <= 0 THEN 1 ELSE b * Pow(b, e - 1)

\* calculateFallSpeed with Math.floor in the place of Math.round
calculateFallSpeedFloor(level, baseFallSpeed) ==
    LET floored == (baseFallSpeed * Pow(4, level - 1)) \div Pow(5, level - 1)
    IN  IF floored > minimumFallSpeed THEN floored ELSE minimumFallSpeed

\* Math.max(Math.round(base * 0.8^(level-1)), 50), Math.round rounding half up
calculateFallSpeed(level, baseFallSpeed) ==
    LET num == baseFallSpeed * Pow(4, level - 1)
        den == Pow(5, level - 1)
        rounded == (2 * num + den) \div (2 * den)
    IN  IF rounded > minimumFallSpeed THEN rounded ELSE minimumFallSpeed

(* ------------------------------------------------------------------ *)
(* tetrominoManager.js (its fields are currentPiece and nextPiece)     *)
(* ------------------------------------------------------------------ *)

spawnX == (boardWidth \div 2) - 2
spawnY == 0

standardOffsets(key) ==
    CASE key = <<0, 1>> -> << <<-1, 0>>, <<-1, -1>>, <<0, 2>>, <<-1, 2>> >>
      [] key = <<1, 2>> -> << <<1, 0>>, <<1, 1>>, <<0, -2>>, <<1, -2>> >>
      [] key = <<2, 3>> -> << <<1, 0>>, <<1, -1>>, <<0, 2>>, <<1, 2>> >>
      [] key = <<3, 0>> -> << <<-1, 0>>, <<-1, 1>>, <<0, -2>>, <<-1, -2>> >>
      [] OTHER -> << >>

iPieceOffsets(key) ==
    CASE key = <<0, 1>> -> << <<-2, 0>>, <<1, 0>>, <<-2, 1>>, <<1, -2>> >>
      [] key = <<1, 2>> -> << <<-1, 0>>, <<2, 0>>, <<-1, -2>>, <<2, 1>> >>
      [] key = <<2, 3>> -> << <<2, 0>>, <<-1, 0>>, <<2, -1>>, <<-1, 2>> >>
      [] key = <<3, 0>> -> << <<1, 0>>, <<-2, 0>>, <<1, 2>>, <<-2, -1>> >>
      [] OTHER -> << >>

getWallKickOffsets(pieceType, fromRotation, toRotation) ==
    IF pieceType = "I" THEN iPieceOffsets(<<fromRotation, toRotation>>)
    ELSE standardOffsets(<<fromRotation, toRotation>>)

hasActivePiece(s) == s.currentPiece # NULL

\* records a step of the running operation in its log
step(s, what) == [s EXCEPT !.did = Append(@, what)]

\* the types a spawn from state s may draw: rnd[1] is the first draw, rnd[2] the
\* second one (made only when there is no next piece yet)
spawnDraws(s) ==
    IF s.nextPiece # NULL
    THEN {<<k1, k1>> : k1 \in bagBeforePop(s.pieceBag)}
    ELSE {<<k1, k2>> \in TETROMINO_TYPES \X TETROMINO_TYPES :
            /\ k1 \in bagBeforePop(s.pieceBag)
            /\ k2 \in bagBeforePop(getRandomTetrominoType(s.pieceBag, k1))}

\* the new next piece is of kind nextKind, popped from bag
drawNextPiece(s, bag, nextKind) ==
    [s EXCEPT !.nextPiece = createTetromino(nextKind, 0, 0, 0),
              !.pieceBag = getRandomTetrominoType(bag, nextKind)]

\* spawnPiece that forgets to clear a current piece whose position is invalid
validateSpawnKeepsPiece(s, piece) ==
    IF ~isValidPosition(s.board, piece)
    THEN step([s EXCEPT !.currentPiece = piece], "spawnFailed")
    ELSE step([s EXCEPT !.currentPiece = piece], "spawn")

\* the piece at the spawn anchor becomes the current piece if its position is valid
validateSpawn(s, piece) ==
    IF ~isValidPosition(s.board, piece)
    THEN step([s EXCEPT !.currentPiece = NULL], "spawnFailed")
    ELSE step([s EXCEPT !.currentPiece = piece], "spawn")

\* spawnPiece that draws the current piece anew and ignores the next piece
spawnPieceDrawsCurrent(s, rnd) ==
    validateSpawn(
        drawNextPiece(s, getRandomTetrominoType(s.pieceBag, rnd[1]), rnd[2]),
        [createTetromino(rnd[1], 0, 0, 0) EXCEPT !.x = spawnX, !.y = spawnY])

\* spawnPiece; it returned null exactly when the result has no current piece
spawnPiece(s, rnd) ==
    IF s.nextPiece # NULL
    THEN validateSpawn(drawNextPiece(s, s.pieceBag, rnd[1]),
            [cloneTetromino(s.nextPiece) EXCEPT !.x = spawnX, !.y = spawnY])
    ELSE validateSpawn(
            drawNextPiece(s, getRandomTetrominoType(s.pieceBag, rnd[1]), rnd[2]),
            [createTetromino(rnd[1], 0, 0, 0) EXCEPT !.x = spawnX, !.y = spawnY])

\* moveHorizontal / moveDown / rotatePiece / hardDrop return [ok | distance, s]
moveHorizontal(s, direction) ==
    LET deltaX == IF direction > 0 THEN 1 ELSE -1
    IN  IF s.currentPiece = NULL THEN [ok |-> FALSE, s |-> s]
        ELSE IF canMove(s.board, s.currentPiece, deltaX, 0)
        THEN [ok |-> TRUE,
              s |-> [s EXCEPT !.currentPiece = moveTetromino(s.currentPiece, deltaX, 0)]]
        ELSE [ok |-> FALSE, s |-> s]

moveLeft(s) == moveHorizontal(s, -1)

moveRight(s) == moveHorizontal(s, 1)

\* moveDown that moves the piece without asking the board
moveDownUnchecked(s) ==
    IF s.currentPiece = NULL THEN [ok |-> FALSE, s |-> s]
    ELSE [ok |-> TRUE, s |-> [s EXCEPT !.currentPiece = moveTetromino(s.currentPiece, 0, 1)]]

moveDown(s) ==
    IF s.currentPiece = NULL THEN [ok |-> FALSE, s |-> s]
    ELSE IF canMove(s.board, s.currentPiece, 0, 1)
    THEN [ok |-> TRUE, s |-> [s EXCEPT !.currentPiece = moveTetromino(s.currentPiece, 0, 1)]]
    ELSE [ok |-> FALSE, s |-> s]

\* a kick search that takes the last valid candidate of the list
lastValidKick(board, rotatedPiece, offsets, i) ==
    IF \A j \in i..Len(offsets) :
            ~canRotate(board, moveTetromino(rotatedPiece, offsets[j][1], offsets[j][2]))
    THEN NULL
    ELSE moveTetromino(rotatedPiece,
            offsets[CHOOSE j \in i..Len(offsets) :
                /\ canRotate(board, moveTetromino(rotatedPiece, offsets[j][1], offsets[j][2]))
                /\ \A k \in (j + 1)..Len(offsets) :
                    ~canRotate(board, moveTetromino(rotatedPiece, offsets[k][1], offsets[k][2]))][1],
            offsets[CHOOSE j \in i..Len(offsets) :
                /\ canRotate(board, moveTetromino(rotatedPiece, offsets[j][1], offsets[j][2]))
                /\ \A k \in (j + 1)..Len(offsets) :
                    ~canRotate(board, moveTetromino(rotatedPiece, offsets[k][1], offsets[k][2]))][2])

\* the first kicked candidate that is valid, from index i of the offsets on
RECURSIVE firstValidKick(_, _, _, _)
firstValidKick(board, rotatedPiece, offsets, i) ==
    IF i > Len(offsets) THEN NULL
    ELSE IF canRotate(board, moveTetromino(rotatedPiece, offsets[i][1], offsets[i][2]))
    THEN moveTetromino(rotatedPiece, offsets[i][1], offsets[i][2])
    ELSE firstValidKick(board, rotatedPiece, offsets, i + 1)

\* the end of rotatePiece: the kicked piece, if there is one, is taken
applyKick(s, kickedPiece) ==
    IF kickedPiece # NULL
    THEN [ok |-> TRUE, s |-> [s EXCEPT !.currentPiece = kickedPiece]]
    ELSE [ok |-> FALSE, s |-> s]

\* rotatePiece that takes the rotated piece without checking its position
tryRotationUnchecked(s, rotatedPiece) ==
    [ok |-> TRUE, s |-> [s EXCEPT !.currentPiece = rotatedPiece]]

\* rotatePiece once the rotated piece is computed: in place, else with a wall kick
tryRotation(s, rotatedPiece) ==
    IF canRotate(s.board, rotatedPiece)
    THEN [ok |-> TRUE, s |-> [s EXCEPT !.currentPiece = rotatedPiece]]
    ELSE applyKick(s,
            firstValidKick(s.board, rotatedPiece,
                getWallKickOffsets(s.currentPiece.type, s.currentPiece.rotation,
                                   rotatedPiece.rotation), 1))

rotatePiece(s) ==
    IF s.currentPiece = NULL THEN [ok |-> FALSE, s |-> s]
    ELSE tryRotation(s, rotateTetromino(s.currentPiece))

\* a lock that takes the piece away and writes nothing into the board
lockPlacedNowhere(s, placed) ==
    IF placed.ok
    THEN [ok |-> TRUE, s |-> [s EXCEPT !.currentPiece = NULL]]
    ELSE [ok |-> FALSE, s |-> s]

\* lockPiece once placePiece returned
lockPlaced(s, placed) ==
    IF placed.ok
    THEN [ok |-> TRUE, s |-> [s EXCEPT !.board = placed.board, !.currentPiece = NULL]]
    ELSE [ok |-> FALSE, s |-> s]

lockPiece(s) ==
    IF s.currentPiece = NULL THEN [ok |-> FALSE, s |-> s]
    ELSE lockPlaced(s, placePiece(s.board, s.currentPiece))

\* one more row dropped
dropDistance(r) == [distance |-> r.distance + 1, s |-> r.s]

RECURSIVE hardDrop(_)
hardDrop(s) ==
    IF s.currentPiece = NULL THEN [distance |-> 0, s |-> s]
    ELSE IF canMoveDown(s.board, s.currentPiece) THEN dropDistance(hardDrop(moveDown(s).s))
    ELSE [distance |-> 0, s |-> s]

\* a ghost that is moved down one row at most
dropGhostOneRow(board, ghostPiece) ==
    IF canMove(board, ghostPiece, 0, 1)
    THEN [ghostPiece EXCEPT !.y = @ + 1]
    ELSE ghostPiece

RECURSIVE dropGhost(_, _)
dropGhost(board, ghostPiece) ==
    IF canMove(board, ghostPiece, 0, 1)
    THEN dropGhost(board, [ghostPiece EXCEPT !.y = @ + 1])
    ELSE ghostPiece

getGhostPiece(s) ==
    IF s.currentPiece = NULL THEN NULL
    ELSE dropGhost(s.board, cloneTetromino(s.currentPiece))

tetrominoReset(s) == [s EXCEPT !.currentPiece = NULL, !.nextPiece = NULL]

(* ------------------------------------------------------------------ *)
(* gameEngine.js                                                       *)
(* ------------------------------------------------------------------ *)

VARIABLES
    board,              \* boardManager.board
    currentPiece,       \* tetrominoManager.currentPiece
    nextPiece,          \* tetrominoManager.nextPiece
    pieceBag,           \* the module-level pieceBag of tetrominoUtils.js
    score, level, linesCleared, totalPiecesPlaced, linesClearedByType,  \* scoreManager
    status, fallSpeed,  \* gameState
    lastFallTime, lastUpdateTime, lockTimer, isLockDelayActive, isSoftDropping, pauseTime,
    animationFrameId, isRunning,
    rafPending,         \* ids of the requestAnimationFrame callbacks not yet run
    now,                \* performance.now()
    keyPresses,         \* the number of game keys pressed so far
    config,             \* the options given to the constructor, and the config
                        \* objects of the engine and of its score manager
    drawn               \* the draws made from the bag since it was last emptied,
                        \* each with the game session that made it

vars == <<board, currentPiece, nextPiece, pieceBag, score, level, linesCleared,
          totalPiecesPlaced, linesClearedByType, status, fallSpeed, lastFallTime,
          lastUpdateTime, lockTimer, isLockDelayActive, isSoftDropping, pauseTime,
          animationFrameId, isRunning, rafPending, now, keyPresses, config, drawn>>

\* The engine and its components as one record.  An operation maps it to the
\* record after the call; in the result, fired lists the events the call
\* delivered to the handlers and did the steps it took, in order.  throwing
\* names the installed handlers that throw; once one of them has thrown, thrown
\* is set and the exception unwinds the call: nothing after the throw runs.
S ==
    [board |-> board, currentPiece |-> currentPiece, nextPiece |-> nextPiece,
     pieceBag |-> pieceBag, score |-> score, level |-> level,
     linesCleared |-> linesCleared, totalPiecesPlaced |-> totalPiecesPlaced,
     linesClearedByType |-> linesClearedByType, status |-> status,
     fallSpeed |-> fallSpeed, lastFallTime |-> lastFallTime,
     lastUpdateTime |-> lastUpdateTime, lockTimer |-> lockTimer,
     isLockDelayActive |-> isLockDelayActive, isSoftDropping |-> isSoftDropping,
     pauseTime |-> pauseTime, animationFrameId |-> animationFrameId,
     isRunning |-> isRunning, rafPending |-> rafPending,
     fired |-> << >>, did |-> << >>, throwing |-> {}, thrown |-> FALSE]

getGameState(s) ==
    [status |-> s.status, fallSpeed |-> s.fallSpeed, score |-> s.score,
     level |-> s.level, linesCleared |-> s.linesCleared, board |-> s.board,
     currentPiece |-> s.currentPiece, nextPiece |-> s.nextPiece,
     isLockDelayActive |-> s.isLockDelayActive, lockTimer |-> s.lockTimer,
     isSoftDropping |-> s.isSoftDropping]

\* the handlers are installed; each notify delivers one event by calling the
\* handler, which returns or throws; the event is logged with its argument and
\* with what getGameState() returns while the handler runs
callHandler(s, name, arg) ==
    IF s.thrown THEN s
    ELSE [s EXCEPT !.fired = Append(@, [name |-> name, arg |-> arg, state |-> getGameState(s)]),
                   !.thrown = name \in s.throwing]

notifyGameStateChange(s) == callHandler(s, "onGameStateChange", getGameState(s))

notifyScoreChange(s) ==
    callHandler(s, "onScoreChange",
        [score |-> s.score, level |-> s.level, linesCleared |-> s.linesCleared])

notifyLinesCleared(s, count, rows) ==
    callHandler(s, "onLinesCleared", [count |-> count, rows |-> rows])

notifyGameOver(s) ==
    callHandler(s, "onGameOver", [status |-> s.status, fallSpeed |-> s.fallSpeed])

\* requestAnimationFrame returns an id that no pending callback has and that
\* the engine does not hold
requestAnimationFrame(s) ==
    CHOOSE id \in 1..(MaxPending + 2) :
        /\ id \notin s.rafPending
        /\ id # s.animationFrameId
        /\ \A j \in 1..(id - 1) : j \in s.rafPending \/ j = s.animationFrameId

cancelAnimationFrame(s) ==
    IF s.animationFrameId # NoFrame
    THEN [s EXCEPT !.rafPending = @ \ {s.animationFrameId}, !.animationFrameId = NoFrame]
    ELSE s

reset(s) ==
    IF s.thrown THEN s
    ELSE
    [tetrominoReset(scoreReset(s)) EXCEPT
        !.board = initializeBoard,
        !.status = "stopped",
        !.fallSpeed = initialFallSpeed,
        !.lastFallTime = 0,
        !.lastUpdateTime = 0,
        !.lockTimer = 0,
        !.isLockDelayActive = FALSE,
        !.isSoftDropping = FALSE,
        !.pauseTime = 0]

\* gameOver without its re-entry guard
gameOverUnguarded(s) ==
    notifyGameOver(notifyGameStateChange(step(
        [cancelAnimationFrame([s EXCEPT !.status = "gameOver", !.isRunning = FALSE])
            EXCEPT !.isLockDelayActive = FALSE, !.lockTimer = 0, !.isSoftDropping = FALSE],
        "gameOver")))

gameOver(s) ==
    IF s.status = "gameOver" THEN s
    ELSE LET s1 == cancelAnimationFrame([s EXCEPT !.status = "gameOver", !.isRunning = FALSE])
             s2 == [s1 EXCEPT !.isLockDelayActive = FALSE, !.lockTimer = 0,
                              !.isSoftDropping = FALSE]
         IN  notifyGameOver(notifyGameStateChange(step(s2, "gameOver")))

\* checkGameOverConditions that does not ask the board
checkGameOverConditionsOfPiece(s) ==
    /\ hasActivePiece(s)
    /\ ~isValidPosition(s.board, s.currentPiece)

checkGameOverConditions(s) ==
    \/ isGameOver(s.board)
    \/ /\ hasActivePiece(s)
       /\ ~isValidPosition(s.board, s.currentPiece)

updateFallSpeed(s) == [s EXCEPT !.fallSpeed = calculateFallSpeed(s.level, initialFallSpeed)]

\* the notifications of handleLinesCleared sent in every status
notifyLineClearAlways(s, count, clearedRows) ==
    notifyLinesCleared(notifyScoreChange(s), count, clearedRows)

\* the notifications of handleLinesCleared
notifyLineClear(s, count, clearedRows) ==
    IF s.status = "playing"
    THEN notifyLinesCleared(notifyScoreChange(s), count, clearedRows)
    ELSE s

\* handleLinesCleared that does not tell the score manager
handleLinesClearedUnscored(s, count, clearedRows) ==
    notifyLineClear(updateFallSpeed(s), count, clearedRows)

handleLinesCleared(s, count, clearedRows) ==
    notifyLineClear(updateFallSpeed(addScore(s, count)), count, clearedRows)

\* lockCurrentPiece: the board after clearLines, and handleLinesCleared if it cleared
applyLineClear(s, cleared) ==
    IF cleared.count > 0
    THEN handleLinesCleared(step([s EXCEPT !.board = cleared.board], "clear"),
                            cleared.count, cleared.rows)
    ELSE [s EXCEPT !.board = cleared.board]

\* lockCurrentPiece: the lock delay is reset
resetLockDelay(s) ==
    IF s.thrown THEN s ELSE [s EXCEPT !.isLockDelayActive = FALSE, !.lockTimer = 0]

\* lockCurrentPiece that ends the game after every lock
checkAfterLockAlways(s) == gameOver(step(s, "gameOverAfterLock"))

\* lockCurrentPiece: the game-over check that ends it
checkAfterLock(s) ==
    IF ~s.thrown /\ checkGameOverConditions(s)
    THEN gameOver(step(s, "gameOverAfterLock"))
    ELSE s

\* lockCurrentPiece when there is a piece: the steps after lockPiece
afterLockPiece(s) == checkAfterLock(resetLockDelay(applyLineClear(s, clearLines(s.board))))

lockCurrentPiece(s) ==
    IF ~hasActivePiece(s) THEN s
    ELSE afterLockPiece(addPiecePlacement(step(lockPiece(s).s, "lock")))

\* tryMovePieceDown once moveDown returned
afterMoveDown(s, moved) ==
    IF moved.ok
    THEN notifyGameStateChange(
            step([moved.s EXCEPT !.isLockDelayActive = FALSE, !.lockTimer = 0],
                 "movedDown"))
    ELSE IF ~s.isLockDelayActive
    THEN step([s EXCEPT !.isLockDelayActive = TRUE, !.lockTimer = 0], "armed")
    ELSE step(s, "blocked")

tryMovePieceDown(s) ==
    IF ~hasActivePiece(s) THEN s ELSE afterMoveDown(s, moveDown(s))

\* checkLockTimer that never finds the lock delay over
checkLockTimerNever(s) == s

\* updateLockDelay once the timer is advanced
checkLockTimer(s) == IF s.lockTimer >= lockDelay THEN lockCurrentPiece(s) ELSE s

updateLockDelay(s, deltaTime) ==
    IF ~s.thrown /\ s.isLockDelayActive /\ s.status = "playing"
    THEN checkLockTimer([s EXCEPT !.lockTimer = @ + deltaTime])
    ELSE s

\* updateFalling: the time of the fall is kept once tryMovePieceDown returned
fallenAt(s, t) == IF s.thrown THEN s ELSE [s EXCEPT !.lastFallTime = t]

\* updateFalling that falls at the level's interval also during a soft drop
updateFallingIgnoringSoftDrop(s, deltaTime, t) ==
    IF ~s.thrown /\ t - s.lastFallTime >= s.fallSpeed
    THEN fallenAt(tryMovePieceDown(step(s, "fallDue")), t)
    ELSE s

updateFalling(s, deltaTime, t) ==
    LET currentFallSpeed == IF s.isSoftDropping THEN softDropSpeed ELSE s.fallSpeed
        timeSinceLastFall == t - s.lastFallTime
    IN  IF ~s.thrown /\ timeSinceLastFall >= currentFallSpeed
        THEN fallenAt(tryMovePieceDown(step(s, "fallDue")), t)
        ELSE s

\* the part of update after the spawn check
fallAndLock(s, deltaTime, t) ==
    IF s.thrown THEN s
    ELSE updateLockDelay(updateFalling(step(s, "falling"), deltaTime, t), deltaTime)

\* update once spawnPiece returned
afterSpawn(s, deltaTime, t) ==
    IF ~hasActivePiece(s) THEN gameOver(step(s, "gameOverSpawnFailed"))
    ELSE IF checkGameOverConditions(s) THEN gameOver(step(s, "gameOverAfterSpawn"))
    ELSE fallAndLock(
            notifyGameStateChange([s EXCEPT !.isLockDelayActive = FALSE, !.lockTimer = 0]),
            deltaTime, t)

\* update without its status check
updateUnguarded(s, deltaTime, t, rnd) ==
    IF ~hasActivePiece(s) THEN afterSpawn(spawnPiece(s, rnd), deltaTime, t)
    ELSE fallAndLock(s, deltaTime, t)

update(s, deltaTime, t, rnd) ==
    IF s.status # "playing" THEN s
    ELSE IF ~hasActivePiece(s) THEN afterSpawn(spawnPiece(s, rnd), deltaTime, t)
    ELSE fallAndLock(s, deltaTime, t)

\* gameLoop: the update of a playing game and its notification
tick(s, deltaTime, t, rnd) ==
    IF s.status = "playing"
    THEN notifyGameStateChange(update(s, deltaTime, t, rnd))
    ELSE s

\* gameLoop: the next frame is requested and its id kept
scheduleFrame(s, id) == [s EXCEPT !.animationFrameId = id, !.rafPending = @ \cup {id}]

requestNextFrame(s) ==
    IF s.thrown THEN s ELSE scheduleFrame(s, requestAnimationFrame(s))

gameLoop(s, t, rnd) ==
    IF ~s.isRunning THEN s
    ELSE requestNextFrame(tick([s EXCEPT !.lastUpdateTime = t], t - s.lastUpdateTime, t, rnd))

\* start once the first spawnPiece returned
afterFirstSpawn(s, t, rnd) ==
    IF ~hasActivePiece(s) THEN gameOver(step(s, "gameOverSpawnFailed"))
    ELSE notifyGameStateChange(
            gameLoop([s EXCEPT !.lastUpdateTime = t, !.lastFallTime = t], t, rnd))

start(s, t, rnd) ==
    IF s.thrown \/ s.isRunning THEN s
    ELSE afterFirstSpawn(
            spawnPiece([reset(s) EXCEPT !.status = "playing", !.isRunning = TRUE], rnd),
            t, rnd)

\* pause without its status check
pauseUnguarded(s, t) ==
    notifyGameStateChange([s EXCEPT !.status = "paused", !.pauseTime = t])

pause(s, t) ==
    IF s.status = "playing"
    THEN notifyGameStateChange([s EXCEPT !.status = "paused", !.pauseTime = t])
    ELSE s

\* resume without its status check
resumeUnguarded(s, t) ==
    notifyGameStateChange(
        [s EXCEPT !.status = "playing",
                  !.lastUpdateTime = t,
                  !.lastFallTime = @ + (t - s.pauseTime)])

\* resume that leaves the fall timer where it was
resumeWithoutShift(s, t) ==
    IF s.status = "paused"
    THEN notifyGameStateChange([s EXCEPT !.status = "playing", !.lastUpdateTime = t])
    ELSE s

resume(s, t) ==
    IF s.status = "paused"
    THEN LET pauseDuration == t - s.pauseTime
         IN  notifyGameStateChange(
                [s EXCEPT !.status = "playing",
                          !.lastUpdateTime = t,
                          !.lastFallTime = @ + pauseDuration])
    ELSE s

togglePause(s, t) ==
    IF s.status = "playing" THEN pause(s, t)
    ELSE IF s.status = "paused" THEN resume(s, t)
    ELSE s

\* stop that halts the loop and leaves the status as it is
stopKeepsStatus(s) ==
    notifyGameStateChange(cancelAnimationFrame([s EXCEPT !.isRunning = FALSE]))

stop(s) ==
    notifyGameStateChange(
        cancelAnimationFrame([s EXCEPT !.isRunning = FALSE, !.status = "stopped"]))

\* restart that does not stop the engine first
restartWithoutStop(s, t, rnd) == start(reset(s), t, rnd)

restart(s, t, rnd) == start(reset(stop(s)), t, rnd)

startSoftDrop(s) == [s EXCEPT !.isSoftDropping = TRUE]

stopSoftDrop(s) == [s EXCEPT !.isSoftDropping = FALSE]

(* ------------------------------------------------------------------ *)
(* inputHandler.js                                                     *)
(* ------------------------------------------------------------------ *)

executeAction(s, action, t, rnd) ==
    IF action = "pause" THEN togglePause(s, t)
    ELSE IF action = "restart" THEN restart(s, t, rnd)
    ELSE IF getGameState(s).status # "playing" THEN s
    ELSE CASE action = "moveLeft" -> moveLeft(s).s
           [] action = "moveRight" -> moveRight(s).s
           [] action = "softDrop" -> startSoftDrop(s)
           [] action = "rotate" -> rotatePiece(s).s
           [] OTHER -> s

(* ------------------------------------------------------------------ *)
(* Construction: the config objects                                    *)
(* ------------------------------------------------------------------ *)

\* options[key]; a key that is not there reads as undefined
prop(options, key) == IF key \in DOMAIN options THEN options[key] ELSE Undefined

\* value || default: zero and undefined are falsy, any other number and a
\* non-empty string are truthy
orDefault(value, default) ==
    IF value = Undefined \/ value = Num(0) THEN Num(default) ELSE value

\* { ...defaulted, ...options }: every key of options overrides
spread(defaulted, options) ==
    [key \in DOMAIN defaulted \cup DOMAIN options |->
        IF key \in DOMAIN options THEN options[key] ELSE defaulted[key]]

\* the defaults of the GameEngine constructor
engineDefaults ==
    [boardWidth |-> 10, boardHeight |-> 20, initialFallSpeed |-> 1000,
     softDropSpeed |-> 50, lockDelay |-> 500]

\* the defaults of the ScoreManager constructor
scoreDefaults == [linesPerLevel |-> linesPerLevel, initialLevel |-> initialLevel]

\* this.config of a constructor with the given defaults
configOf(defaults, options) ==
    spread([key \in DOMAIN defaults |-> orDefault(prop(options, key), defaults[key])],
           options)

\* new ScoreManager(options): its config
newScoreManager(options) == configOf(scoreDefaults, options)

\* new GameEngine(options): its config, and the config of the score manager it
\* creates with new ScoreManager()
newGameEngine(options) ==
    [engine |-> configOf(engineDefaults, options),
     score |-> newScoreManager(<< >>)]

\* the configs that the options give: to a GameEngine and its score manager,
\* and to a ScoreManager constructed with them
constructions(options) ==
    [options |-> options,
     gameEngine |-> newGameEngine(options),
     scoreManager |-> newScoreManager(options)]

\* the options of the engine under test
testOptions ==
    [boardWidth |-> Num(boardWidth), boardHeight |-> Num(boardHeight),
     initialFallSpeed |-> Num(initialFallSpeed), softDropSpeed |-> Num(softDropSpeed),
     lockDelay |-> Num(lockDelay)]

(* ------------------------------------------------------------------ *)
(* The state machine                                                   *)
(* ------------------------------------------------------------------ *)

\* the fields of an engine right after its construction, the board and the
\* current piece aside
ConstructedBesides ==
    /\ nextPiece = NULL
    /\ pieceBag = {}
    /\ score = 0
    /\ level = initialLevel
    /\ linesCleared = 0
    /\ totalPiecesPlaced = 0
    /\ linesClearedByType = [single |-> 0, double |-> 0, triple |-> 0, tetris |-> 0]
    /\ status = "stopped"
    /\ fallSpeed = initialFallSpeed
    /\ lastFallTime = 0
    /\ lastUpdateTime = 0
    /\ lockTimer = 0
    /\ isLockDelayActive = FALSE
    /\ isSoftDropping = FALSE
    /\ pauseTime = 0
    /\ animationFrameId = NoFrame
    /\ isRunning = FALSE
    /\ rafPending = {}
    /\ now = 0
    /\ keyPresses = 0
    /\ drawn = << >>

\* the fields of an engine right after its construction
Constructed ==
    /\ board = initializeBoard
    /\ currentPiece = NULL
    /\ ConstructedBesides

Init ==
    /\ Constructed
    /\ config = constructions(testOptions)

\* the engine becomes r
Engine(r) ==
    /\ Cardinality(r.rafPending) <= MaxPending
    /\ board' = r.board
    /\ currentPiece' = r.currentPiece
    /\ nextPiece' = r.nextPiece
    /\ pieceBag' = r.pieceBag
    /\ score' = r.score
    /\ level' = r.level
    /\ linesCleared' = r.linesCleared
    /\ totalPiecesPlaced' = r.totalPiecesPlaced
    /\ linesClearedByType' = r.linesClearedByType
    /\ status' = r.status
    /\ fallSpeed' = r.fallSpeed
    /\ lastFallTime' = r.lastFallTime
    /\ lastUpdateTime' = r.lastUpdateTime
    /\ lockTimer' = r.lockTimer
    /\ isLockDelayActive' = r.isLockDelayActive
    /\ isSoftDropping' = r.isSoftDropping
    /\ pauseTime' = r.pauseTime
    /\ animationFrameId' = r.animationFrameId
    /\ isRunning' = r.isRunning
    /\ rafPending' = r.rafPending
    /\ config' = config
    /\ drawn' = drawn

\* an operation other than a game key maps the engine to r
Commit(r) == Engine(r) /\ UNCHANGED <<now, keyPresses>>

\* the draws open to an operation that spawns from state s, if it spawns at all
Draws(spawns, s) == IF spawns THEN spawnDraws(s) ELSE {<<"I", "I">>}

\* elapsed-time values handed to a direct update() call
DeltaTimes == {0, lockDelay \div 2, lockDelay}

\* the values performance.now() can have when the next operation is called
CallTimes == {now + k * Quantum : k \in 0..MaxLate}

\* the engine after the callbacks ids of one animation frame ran at time t, in
\* the order they were requested; a callback cancelled meanwhile does not run,
\* and an exception ends only the callback it was thrown in
RECURSIVE runCallbacks(_, _, _)
runCallbacks(s, ids, t) ==
    IF ids = {} THEN {s}
    ELSE LET id == CHOOSE i \in ids : \A j \in ids : i <= j
             rest == ids \ {id}
         IN  IF id \notin s.rafPending THEN runCallbacks(s, rest, t)
             ELSE UNION {runCallbacks(
                            gameLoop([s EXCEPT !.rafPending = @ \ {id}, !.thrown = FALSE],
                                     t, rnd), rest, t) :
                         rnd \in Draws(s.isRunning /\ s.status = "playing"
                                          /\ ~hasActivePiece(s), s)}

\* the next animation frame: the clock has advanced and every pending
\* requestAnimationFrame callback runs gameLoop; the clock is read only by the
\* operations of a running game, so it stands still while no frame is pending
AnimationFrame ==
    /\ rafPending # {}
    /\ now + Quantum <= MaxFrames * Quantum
    /\ now' = now + Quantum
    /\ \E r \in runCallbacks(S, rafPending, now + Quantum) : Engine(r)
    /\ UNCHANGED keyPresses

\* the host calls update(deltaTime) itself
Update ==
    \E deltaTime \in DeltaTimes :
        \E rnd \in Draws(status = "playing" /\ currentPiece = NULL, S) :
            Commit(update(S, deltaTime, now, rnd))

Start ==
    \E rnd \in Draws(~isRunning, reset(S)) :
        Commit(start(S, now, rnd))

Restart ==
    \E rnd \in Draws(TRUE, reset(S)) :
        Commit(restart(S, now, rnd))

Pause == Commit(pause(S, now))

Resume == Commit(resume(S, now))

TogglePause == Commit(togglePause(S, now))

Stop == Commit(stop(S))

Reset == Commit(reset(S))

GameOver == Commit(gameOver(S))

\* keydown of a key mapped to a game action (first press or key repeat); a
\* press the engine ignores is not counted
\* the engine becomes r, and the key press had an effect
Pressed(r) == r # S /\ Engine(r)

KeyDown ==
    /\ keyPresses < MaxKeys
    /\ keyPresses' = keyPresses + 1
    /\ now' = now
    /\ \E action \in {"moveLeft", "moveRight", "softDrop", "rotate"} :
            Pressed(executeAction(S, action, now, <<"I", "I">>))

\* keyup of the soft-drop key
KeyUpSoftDrop == Commit(stopSoftDrop(S))

\* the host writes a block into the array getBoard() hands out, in column 0
WriteBoard ==
    /\ getFilledBlockCount(board) < MaxHostBlocks
    /\ \E y \in 0..(boardHeight - 1) :
            Commit([S EXCEPT !.board[y + 1][1] =
                        [type |-> "I", color |-> TETROMINO_COLORS["I"]]])

Next ==
    \/ AnimationFrame
    \/ Update
    \/ Start
    \/ Restart
    \/ Pause
    \/ Resume
    \/ TogglePause
    \/ Stop
    \/ Reset
    \/ GameOver
    \/ KeyDown
    \/ KeyUpSoftDrop

\* the engine driven through its operations alone
Spec == Init /\ [][Next]_vars

NextHost ==
    \/ Next
    \/ WriteBoard

\* the engine with a host that also writes into the board, as the tests do
SpecHost == Init /\ [][NextHost]_vars

\* the settings a constructor can be given
OptionNames == DOMAIN engineDefaults \cup DOMAIN scoreDefaults

\* the values tried for a setting: zero, a negative number, a valid number, a
\* text and undefined
OptionValues == {Num(0), Num(0 - 1), Num(SuppliedValue), Text, Undefined}

\* the option objects with at most MaxOptions settings
OptionSets ==
    UNION {[names -> OptionValues] :
            names \in {d \in SUBSET OptionNames : Cardinality(d) <= MaxOptions}}

\* the constructors are called with the options o
Construct ==
    /\ \E o \in OptionSets : config' = constructions(o)
    /\ UNCHANGED <<board, currentPiece, nextPiece, pieceBag, score, level, linesCleared,
                   totalPiecesPlaced, linesClearedByType, status, fallSpeed, lastFallTime,
                   lastUpdateTime, lockTimer, isLockDelayActive, isSoftDropping, pauseTime,
                   animationFrameId, isRunning, rafPending, now, keyPresses, drawn>>

\* the construction alone, for every option object
SpecConfig == Init /\ [][Construct]_vars

(* ------------------------------------------------------------------ *)
(* Properties.  Each is stated over every reachable state and, there,  *)
(* over every call of the operation concerned: S is the engine before  *)
(* the call, the operator's value the engine after it, with the events *)
(* it fired (fired) and the steps it took (did).                       *)
(* ------------------------------------------------------------------ *)

Logged(r, what) == \E i \in DOMAIN r.did : r.did[i] = what

Fired(r, name) == Cardinality({i \in DOMAIN r.fired : r.fired[i].name = name})

\* the game state a player sees, with the lock-delay state
GameData(s) ==
    [score |-> s.score, level |-> s.level, linesCleared |-> s.linesCleared,
     currentPiece |-> s.currentPiece, nextPiece |-> s.nextPiece, board |-> s.board,
     lockTimer |-> s.lockTimer, isLockDelayActive |-> s.isLockDelayActive]

\* the engine after each update call the host can make now
UpdateCalls ==
    {update(S, a[1], a[2], a[3]) : a \in DeltaTimes \X CallTimes \X spawnDraws(S)}

\* the engine after the animation frame at time t, for each outcome of the draws
frame(s, t) == runCallbacks(s, s.rafPending, t)

\* C1: within one update call, a piece that was spawned in that call is not
\* locked in that call, whatever the elapsed time and the board
C1_SpawnedPieceNotLockedInSameUpdate ==
    \A r \in UpdateCalls : Logged(r, "spawn") => ~Logged(r, "lock")

\* the engine after each call of an operation that can be made now, with the
\* status the engine had when the last thing that can end the game began
\* (restart, and start when the loop is not running, begin with a reset)
Calls ==
    {[pre |-> status, op |-> "update", r |-> r] : r \in UpdateCalls}
    \cup {[pre |-> status, op |-> "tick", r |-> r] :
            r \in UNION {frame(S, t) : t \in CallTimes}}
    \cup {[pre |-> IF isRunning THEN status ELSE "stopped", op |-> "start",
           r |-> start(S, a[1], a[2])] : a \in CallTimes \X spawnDraws(reset(S))}
    \cup {[pre |-> "stopped", op |-> "restart", r |-> restart(S, a[1], a[2])] :
            a \in CallTimes \X spawnDraws(reset(S))}
    \cup {[pre |-> status, op |-> "pause", r |-> pause(S, t)] : t \in CallTimes}
    \cup {[pre |-> status, op |-> "resume", r |-> resume(S, t)] : t \in CallTimes}
    \cup {[pre |-> status, op |-> "togglePause", r |-> togglePause(S, t)] : t \in CallTimes}
    \cup {[pre |-> status, op |-> "stop", r |-> stop(S)],
          [pre |-> status, op |-> "reset", r |-> reset(S)],
          [pre |-> status, op |-> "gameOver", r |-> gameOver(S)],
          [pre |-> status, op |-> "input", r |-> stopSoftDrop(S)]}
    \cup {[pre |-> status, op |-> "input", r |-> executeAction(S, action, now, <<"I", "I">>)] :
            action \in {"moveLeft", "moveRight", "softDrop", "rotate"}}

\* C2: each transition into gameOver fires onGameOver exactly once, and calling
\* gameOver() while the status is gameOver changes nothing and fires nothing,
\* also when it is called twice in a row
C2_GameOverFiresOnce ==
    /\ status = "gameOver" => gameOver(S) = S
    /\ gameOver(gameOver(S)) = gameOver(S)
    /\ \A c \in Calls :
            Fired(c.r, "onGameOver") =
                (IF c.pre # "gameOver" /\ c.r.status = "gameOver" THEN 1 ELSE 0)

\* a playing game with a piece that gameOver() ends, called once or twice, with one event
C2_Witness ==
    /\ status = "playing" /\ currentPiece # NULL /\ totalPiecesPlaced > 0
    /\ Fired(gameOver(gameOver(S)), "onGameOver") = 1

\* the engine after what can happen while paused from time t on: nothing, one
\* or two animation frames, or an update call
WhilePaused(p, t) ==
    {p} \cup frame(p, t + Quantum)
        \cup UNION {frame(g, t + 2 * Quantum) : g \in frame(p, t + Quantum)}
        \cup {update(p, a[1], t, a[2]) : a \in DeltaTimes \X spawnDraws(p)}

\* C3: pause() and a later resume(), with ticks in between, leave score, level,
\* linesCleared, both pieces, the board and the lock-delay state as they were
\* and move lastFallTime by the time spent paused, so the time since the last
\* fall is at resume what it was at pause
C3_PauseResumeRoundTrip ==
    status = "playing" =>
        \A t \in CallTimes : \A g \in WhilePaused(pause(S, t), t) : \A k \in 2..(2 + MaxLate) :
            /\ g.status = "paused"
            /\ resume(g, t + k * Quantum).status = "playing"
            /\ GameData(resume(g, t + k * Quantum)) = GameData(S)
            /\ resume(g, t + k * Quantum).lastFallTime = S.lastFallTime + k * Quantum
            /\ (t + k * Quantum) - resume(g, t + k * Quantum).lastFallTime
                    = t - S.lastFallTime

\* a playing game whose piece rests with the lock delay running and a frame pending
C3_Witness ==
    /\ status = "playing" /\ currentPiece # NULL /\ rafPending # {}
    /\ isLockDelayActive /\ lockTimer > 0

\* C4: while the status is not playing, update changes no state and fires no
\* event, and an animation frame moves, locks or spawns no piece, changes no
\* score, level, lock-delay state or status, and fires no event
C4_UpdateIgnoredUnlessPlaying ==
    status # "playing" =>
        /\ \A r \in UpdateCalls : r = S
        /\ \A t \in CallTimes : \A g \in frame(S, t) :
                /\ GameData(g) = GameData(S)
                /\ g.status = status
                /\ g.fired = << >>

\* a paused game whose piece rests with the lock delay running and a frame pending
C4_Witness ==
    /\ status = "paused" /\ currentPiece # NULL /\ rafPending # {}
    /\ isLockDelayActive /\ now > pauseTime

\* a new game: playing, nothing scored, an empty board, no lock delay, no soft
\* drop, the current piece at the spawn anchor and a next piece
StartedFresh(r) ==
    /\ r.status = "playing"
    /\ r.score = 0 /\ r.linesCleared = 0 /\ r.level = initialLevel
    /\ r.board = initializeBoard
    /\ r.lockTimer = 0 /\ ~r.isLockDelayActive /\ ~r.isSoftDropping
    /\ r.currentPiece # NULL /\ r.nextPiece # NULL
    /\ r.currentPiece.x = spawnX /\ r.currentPiece.y = spawnY
    /\ r.currentPiece.rotation = 0

\* the engine after each start() call that can be made now
StartCalls == {start(S, a[1], a[2]) : a \in CallTimes \X spawnDraws(reset(S))}

\* C5: start() called while the status is stopped or gameOver resets everything
\* and leaves a new game playing, or gameOver if that first spawn failed
C5_StartFromStoppedOrGameOver ==
    status \in {"stopped", "gameOver"} =>
        \A r \in StartCalls :
            StartedFresh(r) \/ (r.status = "gameOver" /\ Logged(r, "spawnFailed"))

\* C6: restart() called in any status leaves a new game playing, and so does a
\* second restart() right after it
C6_RestartStartsFresh ==
    \A a \in CallTimes \X spawnDraws(reset(S)) :
        /\ StartedFresh(restart(S, a[1], a[2]))
        /\ \A rnd \in spawnDraws(reset(restart(S, a[1], a[2]))) :
                StartedFresh(restart(restart(S, a[1], a[2]), a[1], rnd))

\* a paused game with a score and the soft drop held, which restart() replaces
C6_Witness ==
    /\ status = "paused" /\ score > 0 /\ isSoftDropping /\ board # initializeBoard
    /\ \E a \in CallTimes \X spawnDraws(reset(S)) : restart(S, a[1], a[2]).score = 0

\* C7: no operation takes the engine from stopped or from paused to gameOver
C7_GameOverOnlyFromPlaying ==
    status \in {"stopped", "paused"} => \A c \in Calls : c.r.status # "gameOver"

\* C8 as stated: a game that is over stays over under every tick and every
\* operation but start() and restart(), and only those two take a game that is
\* over or stopped to playing
C8_GameOverUntilStart ==
    /\ status = "gameOver" =>
            \A c \in Calls : c.op \notin {"start", "restart"} => c.r.status = "gameOver"
    /\ status \in {"gameOver", "stopped"} =>
            \A c \in Calls : c.r.status = "playing" => c.op \in {"start", "restart"}

\* C8, amended: a game that is over stays over under every tick, update, pause,
\* resume, togglePause, gameOver() and input; stop() and reset() make it
\* stopped, start() and restart() make it playing, and only those two take a
\* game that is over or stopped to playing
C8_GameOverLeftByStopResetStart ==
    /\ status = "gameOver" =>
            \A c \in Calls :
                /\ c.op \notin {"start", "restart", "stop", "reset"} => c.r.status = "gameOver"
                /\ c.op \in {"stop", "reset"} => c.r.status = "stopped"
                /\ c.op \in {"start", "restart"} => c.r.status \in {"playing", "gameOver"}
    /\ status \in {"gameOver", "stopped"} =>
            \A c \in Calls : c.r.status = "playing" => c.op \in {"start", "restart"}

\* a game that is over after a lock, with a tick still pending
C8_Witness ==
    /\ status = "gameOver" /\ rafPending # {} /\ totalPiecesPlaced > 0
    /\ stop(S).status = "stopped"

\* the calls that run the game: update, a tick, start and restart
GameCalls == {c \in Calls : c.op \in {"update", "tick", "start", "restart"}}

\* the call c ended the game
EndedGame(c) == c.pre # "gameOver" /\ c.r.status = "gameOver"

\* C9 as stated: the game ends only when a spawn failed
C9_GameOverOnlyByFailedSpawn ==
    \A c \in GameCalls : EndedGame(c) => Logged(c.r, "spawnFailed")

\* C9, amended: update, a tick, start and restart end the game only when a
\* spawn failed or when, after a spawn or a lock, the game-over check finds a
\* block in the two top rows or the current piece in an invalid position; no
\* other operation but gameOver() itself ends it
C9_GameOverBySpawnOrCheck ==
    \A c \in Calls :
        EndedGame(c) =>
            \/ c.op = "gameOver"
            \/ c \in GameCalls /\ Logged(c.r, "spawnFailed")
            \/ /\ c \in GameCalls
               /\ Logged(c.r, "spawn") \/ Logged(c.r, "lock")
               /\ checkGameOverConditions(c.r)

\* an update that locks the piece and ends the game though no spawn failed
C9_Witness ==
    /\ status = "playing" /\ currentPiece # NULL
    /\ \E r \in UpdateCalls :
            r.status = "gameOver" /\ Logged(r, "lock") /\ ~Logged(r, "spawnFailed")

\* C10: when the spawn of update() or of start() finds the spawn position
\* invalid, there is no current piece and the status is gameOver when the call
\* returns, and the call ran neither the falling nor the lock-delay logic;
\* spawnPiece leaves a current piece only in a valid position
C10_FailedSpawnEndsGame ==
    /\ \A r \in UpdateCalls \cup StartCalls :
            Logged(r, "spawnFailed") =>
                /\ r.currentPiece = NULL
                /\ r.status = "gameOver"
                /\ ~Logged(r, "falling") /\ ~Logged(r, "fallDue") /\ ~Logged(r, "lock")
                /\ r.lockTimer = 0 /\ ~r.isLockDelayActive
    /\ \A rnd \in spawnDraws(S) :
            /\ Logged(spawnPiece(S, rnd), "spawnFailed")
                    => spawnPiece(S, rnd).currentPiece = NULL
            /\ spawnPiece(S, rnd).currentPiece # NULL
                    => isValidPosition(board, spawnPiece(S, rnd).currentPiece)

\* a playing game without a piece on a board where the next spawn fails
C10_Witness ==
    /\ status = "playing" /\ currentPiece = NULL
    /\ \E r \in UpdateCalls : Logged(r, "spawnFailed") /\ Fired(r, "onGameOver") = 1

\* C11: pause() changes state only while playing and resume() only while
\* paused; in every other status each of them, and togglePause() while stopped
\* or gameOver, changes no state, pauseTime included, and fires no event
C11_PauseResumeOnlyFromTheirStatus ==
    \A t \in CallTimes :
        /\ status # "playing" => pause(S, t) = S
        /\ status # "paused" => resume(S, t) = S
        /\ status \in {"stopped", "gameOver"} => togglePause(S, t) = S
        /\ status = "playing" => pause(S, t).status = "paused" /\ resume(S, t) = S
        /\ status = "paused" => resume(S, t).status = "playing" /\ pause(S, t) = S

\* a game that was paused earlier and is over now, at a later time
C11_Witness ==
    /\ status = "gameOver" /\ pauseTime > 0 /\ now > pauseTime
    /\ pause(S, now) = S /\ resume(S, now) = S /\ togglePause(S, now) = S

\* how many times the call took the step what
Steps(r, what) == Cardinality({i \in DOMAIN r.did : r.did[i] = what})

\* the fall interval in force: softDropSpeed during a soft drop, else the
\* interval of the level
ActiveFallInterval ==
    IF isSoftDropping THEN softDropSpeed ELSE calculateFallSpeed(level, initialFallSpeed)

\* C12: while playing with a current piece that can move down, an update at
\* time t moves the piece down one row if t - lastFallTime is at least the
\* active fall interval and leaves it where it is otherwise; no update moves a
\* piece down more than one row
C12_FallsOneRowWhenDue ==
    /\ \A r \in UpdateCalls : Steps(r, "movedDown") <= 1
    /\ (status = "playing" /\ currentPiece # NULL /\ canMoveDown(board, currentPiece)) =>
        \A a \in DeltaTimes \X CallTimes :
            IF a[2] - lastFallTime >= ActiveFallInterval
            THEN /\ Steps(update(S, a[1], a[2], <<"I", "I">>), "movedDown") = 1
                 /\ update(S, a[1], a[2], <<"I", "I">>).currentPiece
                        = moveTetromino(currentPiece, 0, 1)
            ELSE /\ Steps(update(S, a[1], a[2], <<"I", "I">>), "movedDown") = 0
                 /\ \/ update(S, a[1], a[2], <<"I", "I">>).currentPiece = currentPiece
                    \/ Logged(update(S, a[1], a[2], <<"I", "I">>), "lock")

\* a soft-dropping piece that has just fallen and can fall again: an update now
\* leaves it, an update one soft-drop interval later moves it one row
C12_Witness ==
    /\ status = "playing" /\ currentPiece # NULL /\ canMoveDown(board, currentPiece)
    /\ isSoftDropping /\ lastFallTime = now /\ currentPiece.y > spawnY
    /\ update(S, 0, now, <<"I", "I">>).currentPiece = currentPiece
    /\ update(S, 0, now + softDropSpeed, <<"I", "I">>).currentPiece.y = currentPiece.y + 1

\* the engine with a current piece, after the automatic downward step
StepDown == tryMovePieceDown(S)

\* C13: a failed automatic downward step arms the lock delay with the timer at
\* zero if it is not armed and leaves a running timer as it is; a successful
\* step disarms it and zeroes the timer; update locks the piece when the time
\* accumulated since the arming reaches lockDelay and never earlier, so not in
\* the call that arms the delay, where no time has passed since the arming
C13_LockDelayArmedOnceLocksWhenReached ==
    (status = "playing" /\ currentPiece # NULL) =>
        /\ (~canMoveDown(board, currentPiece) /\ ~isLockDelayActive) =>
                StepDown.isLockDelayActive /\ StepDown.lockTimer = 0
        /\ (~canMoveDown(board, currentPiece) /\ isLockDelayActive) =>
                StepDown.isLockDelayActive /\ StepDown.lockTimer = lockTimer
        /\ canMoveDown(board, currentPiece) =>
                ~StepDown.isLockDelayActive /\ StepDown.lockTimer = 0
        /\ \A a \in DeltaTimes \X CallTimes :
                /\ Logged(update(S, a[1], a[2], <<"I", "I">>), "armed") =>
                        ~Logged(update(S, a[1], a[2], <<"I", "I">>), "lock")
                /\ (isLockDelayActive
                        /\ ~Logged(update(S, a[1], a[2], <<"I", "I">>), "movedDown")) =>
                        (Logged(update(S, a[1], a[2], <<"I", "I">>), "lock")
                            <=> lockTimer + a[1] >= lockDelay)
                /\ ~isLockDelayActive =>
                        (Logged(update(S, a[1], a[2], <<"I", "I">>), "lock")
                            => Logged(update(S, a[1], a[2], <<"I", "I">>), "armed"))

\* the host moves the current piece through the piece controller that
\* getTetrominoManager() hands out: a move, a rotation or a hard drop that
\* changes the piece
PieceMove ==
    \E r \in {moveLeft(S).s, moveRight(S).s, moveDown(S).s, rotatePiece(S).s, hardDrop(S).s} :
        r # S /\ Commit(r)

NextPieces ==
    \/ Start
    \/ AnimationFrame
    \/ Update
    \/ Pause
    \/ Resume
    \/ Restart
    \/ PieceMove

\* spawn, move, rotate, hard drop, automatic fall, lock, line clear,
\* pause/resume and restart in any order
SpecPieces == Init /\ [][NextPieces]_vars

\* C14: after any sequence of spawn, move, rotate with wall kicks, hard drop,
\* automatic fall, lock, line clear, pause/resume and restart, the current
\* piece, when there is one, lies inside the board and overlaps no occupied cell
C14_CurrentPieceAlwaysValid ==
    currentPiece # NULL => isValidPosition(board, currentPiece)

\* a piece over locked blocks, moved off the spawn column, that only a wall
\* kick can rotate
C14_Witness ==
    /\ currentPiece # NULL /\ totalPiecesPlaced > 0 /\ getFilledBlockCount(board) > 0
    /\ currentPiece.x # spawnX
    /\ ~canRotate(board, rotateTetromino(currentPiece))
    /\ rotatePiece(S).ok
    /\ isValidPosition(board, rotatePiece(S).s.currentPiece)

\* the handlers a host can install
Handlers == {"onGameStateChange", "onScoreChange", "onLinesCleared", "onGameOver"}

\* the engine as it is now, with a handler h that throws
Throwing(h) == [S EXCEPT !.throwing = {h}]

\* the engine's state in r, without the record of what the call fired and did
EngineState(r) == [r EXCEPT !.fired = << >>, !.did = << >>, !.throwing = {}, !.thrown = FALSE]

\* C15: when a handler throws, the engine's state after the call is what it is
\* when the handler returns: an update applies its lock and line clear in full,
\* a transition to gameOver still fires onGameOver, and a tick requests the
\* next frame
C15_ThrowingHandlerLeavesStateIntact ==
    \A h \in Handlers :
        /\ \A a \in DeltaTimes \X CallTimes \X spawnDraws(S) :
                /\ EngineState(update(Throwing(h), a[1], a[2], a[3]))
                        = EngineState(update(S, a[1], a[2], a[3]))
                /\ Fired(update(Throwing(h), a[1], a[2], a[3]), "onGameOver")
                        = Fired(update(S, a[1], a[2], a[3]), "onGameOver")
        /\ \A t \in CallTimes :
                {EngineState(g) : g \in frame(Throwing(h), t)}
                    = {EngineState(g) : g \in frame(S, t)}
        /\ EngineState(gameOver(Throwing(h))) = EngineState(gameOver(S))
        /\ Fired(gameOver(Throwing(h)), "onGameOver") = Fired(gameOver(S), "onGameOver")

\* the events named name that the call delivered while the status was not playing
DeliveredNotPlaying(r, name) ==
    {i \in DOMAIN r.fired : r.fired[i].name = name /\ r.fired[i].state.status # "playing"}

\* C16: onScoreChange and onLinesCleared are never delivered while the status
\* is stopped, paused or gameOver, neither by an operation of the engine nor by
\* handleLinesCleared called in that status
C16_ScoreEventsOnlyWhilePlaying ==
    /\ \A c \in Calls :
            /\ DeliveredNotPlaying(c.r, "onScoreChange") = {}
            /\ DeliveredNotPlaying(c.r, "onLinesCleared") = {}
    /\ \A n \in 1..4 :
            /\ DeliveredNotPlaying(handleLinesCleared(S, n, << >>), "onScoreChange") = {}
            /\ DeliveredNotPlaying(handleLinesCleared(S, n, << >>), "onLinesCleared") = {}

\* a paused game in which lines were cleared: handleLinesCleared called now
\* scores and delivers nothing
C16_Witness ==
    /\ status = "paused" /\ linesCleared > 0 /\ score > 0
    /\ handleLinesCleared(S, 2, << >>).score > score
    /\ handleLinesCleared(S, 2, << >>).fired = << >>

\* the call delivered an onGameStateChange event whose snapshot has status st
ReportedStatus(r, st) ==
    \E i \in DOMAIN r.fired :
        r.fired[i].name = "onGameStateChange" /\ r.fired[i].arg.status = st

\* C17: every operation that changes the status delivers, before it returns,
\* an onGameStateChange event that carries the new status
C17_StatusChangeReported ==
    \A c \in Calls : c.r.status # status => ReportedStatus(c.r, c.r.status)

\* C18: the value handed to the onGameOver handler is the final snapshot: it
\* has status gameOver and the score, level, linesCleared, board and pieces
\* that getGameState() returns at that moment
C18_GameOverEventCarriesSnapshot ==
    \A c \in Calls :
        \A i \in DOMAIN c.r.fired :
            c.r.fired[i].name = "onGameOver" =>
                /\ c.r.fired[i].arg.status = "gameOver"
                /\ c.r.fired[i].arg = c.r.fired[i].state

\* a setting's value is valid: a number above zero
IsValidSetting(value) == value.t = "number" /\ value.v > 0

\* the setting key of the config cfg is the default, or the supplied value if
\* that is valid
SettingDefaulted(cfg, defaults, options, key) ==
    IF key \in DOMAIN options /\ IsValidSetting(options[key])
    THEN cfg[key] \in {options[key], Num(defaults[key])}
    ELSE cfg[key] = Num(defaults[key])

\* C19: a construction option that is omitted or invalid (zero, negative, not
\* a number) is replaced by its default: every setting of the engine's config
\* and of the score manager's config is the default or a valid supplied value
C19_InvalidOptionsDefaulted ==
    /\ \A key \in DOMAIN engineDefaults :
            SettingDefaulted(config.gameEngine.engine, engineDefaults, config.options, key)
    /\ \A key \in DOMAIN scoreDefaults :
            /\ SettingDefaulted(config.gameEngine.score, scoreDefaults, config.options, key)
            /\ SettingDefaulted(config.scoreManager, scoreDefaults, config.options, key)

\* updateLevel of a score manager whose config is cfg, once lines are cleared
updateLevelWith(cfg, lines) == (lines \div cfg["linesPerLevel"].v) + cfg["initialLevel"].v

\* the value a score setting is to have: the valid supplied one, else the default
WantedScoreSetting(key) ==
    IF key \in DOMAIN config.options /\ IsValidSetting(config.options[key])
    THEN config.options[key]
    ELSE Num(scoreDefaults[key])

\* C20: a valid linesPerLevel and initialLevel in the options of the engine are
\* the ones its score manager uses: the level starts at that initial level and
\* rises by one with every linesPerLevel lines cleared
C20_EngineScoreSettingsUsed ==
    /\ \A key \in DOMAIN scoreDefaults :
            config.gameEngine.score[key] = WantedScoreSetting(key)
    /\ \A lines \in 0..(2 * SuppliedValue) :
            updateLevelWith(config.gameEngine.score, lines)
                = (lines \div WantedScoreSetting("linesPerLevel").v)
                    + WantedScoreSetting("initialLevel").v

\* the engine's state in r apart from the frame callbacks still pending
StateButFrames(r) == [EngineState(r) EXCEPT !.rafPending = {}]

\* the engine after what ticks can do from time t on to an engine p: one or two
\* animation frames, or an update call
AfterTicks(p, t) ==
    frame(p, t + Quantum)
        \cup UNION {frame(g, t + 2 * Quantum) : g \in frame(p, t + Quantum)}
        \cup {update(p, a[1], t + Quantum, a[2]) : a \in DeltaTimes \X spawnDraws(p)}

\* C21: stop() makes the status stopped and leaves score, level, lines cleared,
\* board and pieces as they are, and the ticks that come after it change no
\* state and fire no event
C21_StopKeepsGameAndHaltsTicks ==
    /\ stop(S).status = "stopped"
    /\ ~stop(S).isRunning
    /\ GameData(stop(S)) = GameData(S)
    /\ \A t \in CallTimes : \A g \in AfterTicks(stop(S), t) :
            /\ StateButFrames(g) = StateButFrames(stop(S))
            /\ g.fired = stop(S).fired

\* a playing game with a piece and blocks on the board, and with a frame
\* pending that stop() does not cancel
C21_Witness ==
    /\ status = "playing" /\ currentPiece # NULL
    /\ score > 0 \/ getFilledBlockCount(board) > 0
    /\ stop(S).rafPending # {}
    /\ GameData(stop(S)) = GameData(S)

(* ------------------------------------------------------------------ *)
(* The piece bag on its own: game sessions that import tetrominoUtils  *)
(* draw from the one module-level bag, and the bag is reset.           *)
(* ------------------------------------------------------------------ *)

\* the game sessions that import the module
Sessions == {"first", "second"}

\* the number of kinds in a new bag
BagSize == Cardinality(generatePieceBag)

\* createRandomTetromino(): a session draws the kind k
Draw ==
    /\ Len(drawn) < MaxDraws
    /\ \E by \in Sessions : \E k \in bagBeforePop(pieceBag) :
            /\ pieceBag' = getRandomTetrominoType(pieceBag, k)
            /\ drawn' = Append(drawn, [by |-> by, kind |-> k])
    /\ UNCHANGED <<board, currentPiece, nextPiece, score, level, linesCleared,
                   totalPiecesPlaced, linesClearedByType, status, fallSpeed, lastFallTime,
                   lastUpdateTime, lockTimer, isLockDelayActive, isSoftDropping, pauseTime,
                   animationFrameId, isRunning, rafPending, now, keyPresses, config>>

\* resetPieceBag()
ResetPieceBag ==
    /\ pieceBag' = resetPieceBag
    /\ drawn' = << >>
    /\ UNCHANGED <<board, currentPiece, nextPiece, score, level, linesCleared,
                   totalPiecesPlaced, linesClearedByType, status, fallSpeed, lastFallTime,
                   lastUpdateTime, lockTimer, isLockDelayActive, isSoftDropping, pauseTime,
                   animationFrameId, isRunning, rafPending, now, keyPresses, config>>

SpecBag == Init /\ [][Draw \/ ResetPieceBag]_vars

\* the kinds of the draws from..to of the draws d
KindsDrawn(d, from, to) == {d[i].kind : i \in from..to}

\* the first draw of the last, partial block of the draws d
LastBagStart(d) == Len(d) - (Len(d) % BagSize) + 1

\* the draws d, cut into blocks of BagSize, are complete bags: every whole block
\* has every kind, and the last, partial block has no kind twice
CompleteBags(d) ==
    /\ \A b \in 1..(Len(d) \div BagSize) :
            KindsDrawn(d, (b - 1) * BagSize + 1, b * BagSize) = generatePieceBag
    /\ \A i, j \in LastBagStart(d)..Len(d) :
            d[i].kind = d[j].kind => i = j

\* C22: from an empty bag, new or just reset, each successive block of as many
\* draws as there are kinds has every kind exactly once, whatever the shuffles;
\* resetPieceBag() leaves no pending draw, so the next draw opens a new bag
C22_EveryBagComplete ==
    /\ CompleteBags(drawn)
    /\ pieceBag = IF Len(drawn) % BagSize = 0 THEN {}
                  ELSE generatePieceBag
                        \ KindsDrawn(drawn, LastBagStart(drawn), Len(drawn))
    /\ resetPieceBag = {}
    /\ bagBeforePop(resetPieceBag) = generatePieceBag

\* two whole bags were drawn, in different orders
C22_Witness ==
    /\ Len(drawn) >= 2 * BagSize
    /\ drawn[1].kind # drawn[BagSize + 1].kind
    /\ pieceBag = {}

\* the draws of the session by, in the order it made them
OwnDraws(by) == SelectSeq(drawn, LAMBDA e : e.by = by)

\* C23: game sessions do not interfere through the piece bag: the draws of each
\* session, in order from its start, form complete bags whether or not another
\* session draws in between
C23_SessionsDrawCompleteBags == \A by \in Sessions : CompleteBags(OwnDraws(by))

\* C24: when there is a next piece, the piece a spawn makes current has the kind
\* of that next piece, at the spawn anchor, in rotation state 0; every call of
\* spawnPiece draws a new next piece, whether the spawn succeeds or not
C24_SpawnTakesNextPiece ==
    \A rnd \in spawnDraws(S) :
        /\ (nextPiece # NULL /\ spawnPiece(S, rnd).currentPiece # NULL)
            => spawnPiece(S, rnd).currentPiece
                    = createTetromino(nextPiece.type, spawnX, spawnY, 0)
        /\ spawnPiece(S, rnd).nextPiece = createTetromino(rnd[2], 0, 0, 0)
        /\ rnd[2] \in bagBeforePop(IF nextPiece # NULL THEN pieceBag
                                   ELSE getRandomTetrominoType(pieceBag, rnd[1]))
        /\ spawnPiece(S, rnd).pieceBag
                = getRandomTetrominoType(IF nextPiece # NULL THEN pieceBag
                                         ELSE getRandomTetrominoType(pieceBag, rnd[1]),
                                         rnd[2])

\* the current piece came from a next piece of another kind than the one shown
\* now, and the board leaves no room for the spawn that follows
C24_Witness ==
    /\ totalPiecesPlaced > 0
    /\ currentPiece # NULL /\ nextPiece # NULL
    /\ currentPiece.type # nextPiece.type
    /\ \E rnd \in spawnDraws(S) : spawnPiece(S, rnd).currentPiece = NULL

(* ------------------------------------------------------------------ *)
(* The board manager and the piece controller on their own, as their   *)
(* unit tests drive them: a board with blocks on it and a piece of any *)
(* kind at any valid position.                                         *)
(* ------------------------------------------------------------------ *)

\* a block written into the board
hostBlock(type) == [type |-> type, color |-> TETROMINO_COLORS[type]]

\* the rows of the boards drawn: empty, complete, a block at the left, a block
\* at the right
HostRows ==
    {emptyRow,
     [col \in 1..boardWidth |-> hostBlock("J")],
     [col \in 1..boardWidth |-> IF col = 1 THEN hostBlock("I") ELSE NULL],
     [col \in 1..boardWidth |-> IF col = boardWidth THEN hostBlock("O") ELSE NULL]}

HostBoards == [1..boardHeight -> HostRows]

\* the tetrominoes of every kind and rotation state, at the anchors from which
\* a shape can touch the board
HostPieces ==
    {createTetromino(type, x, y, rotation) :
        type \in TETROMINO_TYPES, x \in -2..(boardWidth - 1),
        y \in -2..(boardHeight - 1), rotation \in 0..MAX_ROTATION_STATE}

InitParts ==
    /\ board \in HostBoards
    /\ currentPiece \in {NULL} \cup {p \in HostPieces : isValidPosition(board, p)}
    /\ ConstructedBesides
    /\ config = constructions(testOptions)

\* boardManager.placePiece(piece) for a piece of a kind of the bag, on a board
\* as drawn over which no current piece is held
PlacePiece ==
    /\ currentPiece = NULL
    /\ board \in HostBoards
    /\ \E p \in HostPieces :
            /\ p.type \in generatePieceBag
            /\ placePiece(board, p).ok
            /\ Commit([S EXCEPT !.board = placePiece(board, p).board])

\* boardManager.clearLines() when a row is complete and no current piece is
\* held over the board
ClearLines ==
    /\ currentPiece = NULL
    /\ clearLines(board).count > 0
    /\ Commit([S EXCEPT !.board = clearLines(board).board])

SpecParts == InitParts /\ [][PieceMove \/ PlacePiece \/ ClearLines]_vars

\* the board manager alone: no piece controller holds a piece over the board
InitBoard == InitParts /\ currentPiece = NULL

SpecBoard == InitBoard /\ [][PlacePiece \/ ClearLines]_vars

\* the piece rotated and then moved by the i-th offset listed for the rotation
KickCandidate(piece, i) ==
    moveTetromino(
        createTetromino(piece.type, piece.x, piece.y, (piece.rotation + 1) % 4),
        getWallKickOffsets(piece.type, piece.rotation, (piece.rotation + 1) % 4)[i][1],
        getWallKickOffsets(piece.type, piece.rotation, (piece.rotation + 1) % 4)[i][2])

\* the indices of the offsets listed for rotating the piece whose candidate is
\* valid on the board
ValidKicks(b, piece) ==
    {i \in 1..Len(getWallKickOffsets(piece.type, piece.rotation,
                                     (piece.rotation + 1) % 4)) :
        isValidPosition(b, KickCandidate(piece, i))}

\* C25: rotatePiece() takes the piece in the next rotation state at the same
\* anchor if that is valid, else the first valid candidate in the order of the
\* kick offsets listed for the kind and the transition, else returns false and
\* leaves the piece as it is; the kind of the piece never changes
C25_RotateNaiveThenFirstKick ==
    currentPiece # NULL =>
        /\ rotatePiece(S).s.currentPiece.type = currentPiece.type
        /\ [rotatePiece(S).s EXCEPT !.currentPiece = currentPiece] = S
        /\ IF isValidPosition(board, createTetromino(currentPiece.type, currentPiece.x,
                    currentPiece.y, (currentPiece.rotation + 1) % 4))
           THEN /\ rotatePiece(S).ok
                /\ rotatePiece(S).s.currentPiece
                        = createTetromino(currentPiece.type, currentPiece.x,
                                currentPiece.y, (currentPiece.rotation + 1) % 4)
           ELSE IF ValidKicks(board, currentPiece) # {}
           THEN /\ rotatePiece(S).ok
                /\ \E i \in ValidKicks(board, currentPiece) :
                        /\ \A j \in ValidKicks(board, currentPiece) : i <= j
                        /\ rotatePiece(S).s.currentPiece = KickCandidate(currentPiece, i)
           ELSE /\ ~rotatePiece(S).ok
                /\ rotatePiece(S).s.currentPiece = currentPiece

\* a piece that is not an I, cannot rotate in place, and is rotated by a kick
\* that is not the first one listed, with a later one valid as well
C25_Witness ==
    /\ currentPiece # NULL /\ currentPiece.type # "I"
    /\ ~canRotate(board, rotateTetromino(currentPiece))
    /\ 1 \notin ValidKicks(board, currentPiece)
    /\ Cardinality(ValidKicks(board, currentPiece)) >= 2
    /\ rotatePiece(S).ok

\* the results of moveLeft(), moveRight() and moveDown(), each with its direction
UnitMoves ==
    {[r |-> moveLeft(S), deltaX |-> -1, deltaY |-> 0],
     [r |-> moveRight(S), deltaX |-> 1, deltaY |-> 0],
     [r |-> moveDown(S), deltaX |-> 0, deltaY |-> 1]}

\* C26: moveLeft(), moveRight() and moveDown() either succeed and change only
\* the anchor of the current piece, by one cell in their direction, or return
\* false and leave the current piece, the next piece and the board as they are;
\* without a current piece they return false and change nothing
C26_UnitMoveOrNothing ==
    \A m \in UnitMoves :
        /\ m.r.ok =>
            /\ currentPiece # NULL
            /\ m.r.s = [S EXCEPT !.currentPiece =
                            createTetromino(currentPiece.type, currentPiece.x + m.deltaX,
                                currentPiece.y + m.deltaY, currentPiece.rotation)]
            /\ isValidPosition(board, m.r.s.currentPiece)
        /\ ~m.r.ok =>
            /\ m.r.s = S
            /\ currentPiece # NULL =>
                ~isValidPosition(board,
                    createTetromino(currentPiece.type, currentPiece.x + m.deltaX,
                        currentPiece.y + m.deltaY, currentPiece.rotation))
        /\ currentPiece = NULL => ~m.r.ok

\* a piece that can move down and to the right and is blocked on its left by a
\* block of the board, not by the wall
C26_Witness ==
    /\ currentPiece # NULL
    /\ moveDown(S).ok /\ moveRight(S).ok /\ ~moveLeft(S).ok
    /\ \A blk \in getTetrominoBlocks(currentPiece) : blk.x > 0

\* the rows of the board b, 0-based, that have no empty cell
FullRows(b) == {row \in 0..(boardHeight - 1) : \A col \in 1..boardWidth : b[row + 1][col] # NULL}

\* C27: clearLines() removes the complete rows, all at once: the other rows keep
\* their order and lie at the bottom, above them there is one empty row for each
\* row removed, no complete row is left, and the result gives the number of rows
\* removed and their indices in the board before; without a complete row the
\* board is unchanged and the count is 0
C27_ClearLinesRemovesCompleteRows ==
    /\ clearLines(board).count = Cardinality(FullRows(board))
    /\ Len(clearLines(board).rows) = clearLines(board).count
    /\ {clearLines(board).rows[i] : i \in 1..Len(clearLines(board).rows)} = FullRows(board)
    /\ \A i, j \in 1..Len(clearLines(board).rows) :
            i < j => clearLines(board).rows[i] < clearLines(board).rows[j]
    /\ clearLines(board).board
            = [i \in 1..Cardinality(FullRows(board)) |-> emptyRow]
                \o SelectSeq(board, LAMBDA row : \E col \in 1..boardWidth : row[col] = NULL)
    /\ FullRows(clearLines(board).board) = {}
    /\ FullRows(board) = {} => clearLines(board).board = board

\* two complete rows apart from each other, with a row of blocks between them
\* and another one below them
C27_Witness ==
    /\ FullRows(board) = {0, 2}
    /\ board[2] # emptyRow /\ board[4] # emptyRow /\ board[2] # board[4]
    /\ clearLines(board).count = 2

\* the cells of the board, as the blocks of a tetromino name them
Cells == {[x |-> col, y |-> row] : col \in 0..(boardWidth - 1), row \in 0..(boardHeight - 1)}

\* C28: placePiece() of a piece whose position is invalid returns false and
\* changes no cell; of a piece whose position is valid it returns true and
\* changes the four cells of the piece, and no other, from empty to occupied
\* with the kind and the colour of the piece
C28_PlacePieceValidOrNothing ==
    \A p \in HostPieces :
        LET blocks == getTetrominoBlocks(p)
            placed == placePiece(board, p)
        IN  IF \A blk \in blocks : blk \in Cells /\ board[blk.y + 1][blk.x + 1] = NULL
            THEN /\ placed.ok
                 /\ Cardinality(blocks) = 4
                 /\ \A c \in Cells :
                        placed.board[c.y + 1][c.x + 1]
                            = IF c \in blocks
                              THEN [type |-> p.type, color |-> TETROMINO_COLORS[p.type]]
                              ELSE board[c.y + 1][c.x + 1]
            ELSE /\ ~placed.ok
                 /\ placed.board = board

\* a board with blocks on which one piece can be placed, another one overlaps a
\* block, and a third one sticks out of the board
C28_Witness ==
    /\ getFilledBlockCount(board) > 0
    /\ \E p \in HostPieces : placePiece(board, p).ok
    /\ \E p \in HostPieces :
            /\ getTetrominoBlocks(p) \subseteq Cells
            /\ ~placePiece(board, p).ok
    /\ \E p \in HostPieces :
            /\ ~(getTetrominoBlocks(p) \subseteq Cells)
            /\ ~placePiece(board, p).ok

(* ------------------------------------------------------------------ *)
(* The score manager on its own: addScore with any argument, and reset *)
(* ------------------------------------------------------------------ *)

\* the arguments of addScore: integers around 1..4, numbers that are not
\* integers, NaN, a string and undefined
LineCounts ==
    {Num(n) : n \in -1..5} \cup {PlusHalf(n) : n \in -1..4} \cup {NaN, Text, Undefined}

\* scoreManager.addScore(linesCleared)
AddScore ==
    /\ linesCleared < MaxLines
    /\ \E x \in LineCounts : Commit(addScoreCall(S, x).s)

\* scoreManager.reset()
ScoreReset == Commit(scoreReset(S))

SpecScore == Init /\ [][AddScore \/ ScoreReset]_vars

\* C29: addScore(n) for n of 1, 2, 3, 4 adds the base score of n times the level
\* before the call to the score, adds n to the lines cleared and returns the
\* points; for any other argument (0, negative, above 4, not an integer, not a
\* number) it returns 0 and leaves score, lines, level and counters unchanged
C29_AddScoreValidOrNothing ==
    \A x \in LineCounts :
        IF x \in {Num(1), Num(2), Num(3), Num(4)}
        THEN /\ addScoreCall(S, x).points = <<100, 300, 500, 800>>[x.v] * level
             /\ addScoreCall(S, x).s.score = score + <<100, 300, 500, 800>>[x.v] * level
             /\ addScoreCall(S, x).s.linesCleared = linesCleared + x.v
        ELSE /\ addScoreCall(S, x).points = 0
             /\ addScoreCall(S, x).s = S

\* lines were cleared in more than one size and the level is above the initial
\* one, so that the next award is multiplied
C29_Witness ==
    /\ level > initialLevel
    /\ score > 0
    /\ linesClearedByType.single > 0 /\ linesClearedByType.tetris > 0
    /\ addScoreCall(S, Num(2)).points = 300 * level

\* C30: after any addScore and reset calls the level is the lines cleared
\* divided by linesPerLevel, rounded down, plus initialLevel: it is never below
\* the initial level and does not go down while lines are added
C30_LevelFollowsLines ==
    /\ level = (linesCleared \div linesPerLevel) + initialLevel
    /\ level >= initialLevel
    /\ \A x \in LineCounts : addScoreCall(S, x).s.level >= level
    /\ scoreReset(S).level = initialLevel /\ scoreReset(S).linesCleared = 0

\* the tenth line is cleared by a call that clears more than one line, and the
\* level is one above the initial level
C30_Witness ==
    /\ linesCleared > linesPerLevel
    /\ linesCleared < 2 * linesPerLevel
    /\ level = initialLevel + 1
    /\ linesClearedByType.single < linesCleared

\* the base fall speeds calculateFallSpeed is called with
BaseFallSpeeds == {initialFallSpeed, 60, 101, 500, 1000}

\* C31 as stated: the fall interval of level L from the base B is
\* max(50, B * 0.8^(L-1)), for every level and base (both sides times 5^(L-1))
C31_FallSpeedIsExactProduct ==
    \A B \in BaseFallSpeeds :
        calculateFallSpeed(level, B) * Pow(5, level - 1)
            = IF B * Pow(4, level - 1) > 50 * Pow(5, level - 1)
              THEN B * Pow(4, level - 1) ELSE 50 * Pow(5, level - 1)

\* C31, amended: the fall interval of level L from the base B is the larger of
\* 50 and B * 0.8^(L-1) rounded to the nearest integer
C31_FallSpeedIsRoundedProduct ==
    \A B \in BaseFallSpeeds :
        \E r \in ((B * Pow(4, level - 1)) \div Pow(5, level - 1))
                    ..((B * Pow(4, level - 1)) \div Pow(5, level - 1) + 1) :
            /\ 2 * r * Pow(5, level - 1) - Pow(5, level - 1) <= 2 * B * Pow(4, level - 1)
            /\ 2 * B * Pow(4, level - 1) < 2 * r * Pow(5, level - 1) + Pow(5, level - 1)
            /\ calculateFallSpeed(level, B) = IF r > 50 THEN r ELSE 50

\* a level at which one base gives a product that is not an integer, and
\* another one a product below the minimum
C31_Witness ==
    /\ level > initialLevel
    /\ \E B \in BaseFallSpeeds : (B * Pow(4, level - 1)) % Pow(5, level - 1) # 0
    /\ \E B \in BaseFallSpeeds : B * Pow(4, level - 1) < 50 * Pow(5, level - 1)

\* C32: getGhostPiece() leaves the current piece, the next piece and the board
\* as they are and returns the current piece moved straight down by the
\* distance hardDrop() reports from the same state, the lowest position that
\* repeated moves down reach; without a current piece it returns null
C32_GhostIsHardDropTarget ==
    IF currentPiece = NULL
    THEN getGhostPiece(S) = NULL /\ hardDrop(S).distance = 0 /\ hardDrop(S).s = S
    ELSE /\ getGhostPiece(S)
                = createTetromino(currentPiece.type, currentPiece.x,
                        currentPiece.y + hardDrop(S).distance, currentPiece.rotation)
         /\ hardDrop(S).s = [S EXCEPT !.currentPiece = getGhostPiece(S)]
         /\ \A d \in 0..hardDrop(S).distance :
                isValidPosition(board, [currentPiece EXCEPT !.y = @ + d])
         /\ ~isValidPosition(board,
                [currentPiece EXCEPT !.y = @ + hardDrop(S).distance + 1])

\* a piece two rows or more above the blocks of the board it would land on
C32_Witness ==
    /\ currentPiece # NULL
    /\ hardDrop(S).distance >= 2
    /\ \E blk \in getTetrominoBlocks(getGhostPiece(S)) :
            blk.y + 1 < boardHeight /\ board[blk.y + 2][blk.x + 1] # NULL

\* C33: a piece the engine locks because the lock delay ran out cannot move
\* down from the position it has then, also when the player moved or rotated
\* it after the lock delay was armed
C33_LockedPieceCannotMoveDown ==
    (status = "playing" /\ currentPiece # NULL) =>
        \A a \in DeltaTimes \X CallTimes :
            Logged(update(S, a[1], a[2], <<"I", "I">>), "lock")
                => ~canMoveDown(board, currentPiece)

\* C34: at most one gameLoop callback is scheduled at any time, whatever the
\* starts, stops, pauses, resumes, restarts, game overs and ticks before
C34_AtMostOneFrameScheduled == Cardinality(rafPending) <= 1

\* C35: the loop-running flag is true exactly when the status is playing or
\* paused, whatever the starts, stops, pauses, resumes, resets, restarts, game
\* overs and ticks before
C35_RunningIffPlayingOrPaused == isRunning <=> status \in {"playing", "paused"}

\* C36: in the states the engine operations reach, no cell of the two top rows
\* of the board is occupied between ticks while the status is playing or
\* paused: a lock that leaves a block there ends the game within its tick
C36_TopRowsFreeWhilePlaying ==
    /\ status \in {"playing", "paused"} =>
            \A row \in 1..2 : \A col \in 1..boardWidth : board[row][col] = NULL
    /\ \A r \in UpdateCalls :
            (Logged(r, "lock")
                /\ \E row \in 1..2 : \E col \in 1..boardWidth : r.board[row][col] # NULL)
                    => r.status = "gameOver"

\* a playing game with locked blocks below the top rows, whose piece an update
\* can lock with a block in the top rows, ending the game
C36_Witness ==
    /\ status = "playing"
    /\ getFilledBlockCount(board) > 0
    /\ \E r \in UpdateCalls :
            /\ Logged(r, "lock")
            /\ isGameOver(r.board)
            /\ r.status = "gameOver"

\* C37: a line clear that follows a lock of the engine removes 1 to 4 rows, the
\* rows the locked piece has completed, so the score manager accepts it, and
\* linesCleared grows by the rows removed and by nothing else: it is the number
\* of rows removed from the board since the last reset
C37_LinesClearedCountsRowsRemoved ==
    /\ FullRows(board) = {}
    /\ (status = "playing" /\ currentPiece # NULL) =>
        \A r \in UpdateCalls :
            IF Logged(r, "lock")
            THEN /\ FullRows(placePiece(board, currentPiece).board)
                        \subseteq {blk.y : blk \in getTetrominoBlocks(currentPiece)}
                 /\ Cardinality(FullRows(placePiece(board, currentPiece).board)) <= 4
                 /\ Logged(r, "clear")
                        <=> FullRows(placePiece(board, currentPiece).board) # {}
                 /\ r.linesCleared
                        = linesCleared
                            + Cardinality(FullRows(placePiece(board, currentPiece).board))
                 /\ getFilledBlockCount(r.board)
                        = getFilledBlockCount(board) + 4
                            - boardWidth * (r.linesCleared - linesCleared)
                 /\ Logged(r, "clear") => r.score > score
            ELSE r.linesCleared = linesCleared /\ r.board = board

\* lines were cleared before, and the current piece is about to be locked and
\* to complete a row
C37_Witness ==
    /\ status = "playing" /\ currentPiece # NULL
    /\ linesCleared > 0
    /\ \E r \in UpdateCalls : Logged(r, "lock") /\ Logged(r, "clear")

\* C38: in the states the engine operations reach, the number of occupied cells
\* of the board is 4 times the pieces placed less the board width times the
\* lines cleared, both as the score manager counts them since the last reset
C38_CellsArePiecesLessLines ==
    getFilledBlockCount(board) = 4 * totalPiecesPlaced - boardWidth * linesCleared

\* a game in which pieces were locked, a line was cleared and blocks remain
C38_Witness ==
    /\ totalPiecesPlaced >= 2
    /\ linesCleared > 0
    /\ getFilledBlockCount(board) > 0

(* ------------------------------------------------------------------ *)
(* The fall interval of a game of a configured engine                  *)
(* ------------------------------------------------------------------ *)

\* the highest level the fall intervals are compared at
MaxLevel == 4

\* reset(): gameState.fallSpeed of the engine with the config cfg, the interval the
\* game starts with
resetFallSpeed(cfg) == cfg["initialFallSpeed"].v

\* updateFallSpeed(): the interval that a line clear at the level lvl gives the
\* engine with the config cfg
updateFallSpeedWith(cfg, lvl) == calculateFallSpeed(lvl, cfg["initialFallSpeed"].v)

\* the fall intervals of a game of the engine with the config cfg, in the order
\* the game has them: the one of reset(), then the one of each level from the
\* initial one up as line clears update it
gameFallSpeeds(cfg) ==
    <<resetFallSpeed(cfg)>>
        \o [i \in 1..MaxLevel |-> updateFallSpeedWith(cfg, initialLevel + i - 1)]

\* C39: in a game of an engine constructed with a valid initial fall speed the
\* fall interval is never below 50 ms and never longer than it was earlier in the
\* game, from start() onward
C39_FallIntervalBoundedAndShrinking ==
    IsValidSetting(config.gameEngine.engine["initialFallSpeed"]) =>
        LET speeds == gameFallSpeeds(config.gameEngine.engine)
        IN  /\ \A i \in DOMAIN speeds : speeds[i] >= 50
            /\ \A i, j \in DOMAIN speeds : i <= j => speeds[j] <= speeds[i]

\* C39 for the engine constructed with no initial fall speed or with one of 50 ms
\* or more: the part of the statement that the code keeps
C39_FallIntervalFromDefault ==
    (/\ IsValidSetting(config.gameEngine.engine["initialFallSpeed"])
     /\ config.gameEngine.engine["initialFallSpeed"].v >= 50) =>
        LET speeds == gameFallSpeeds(config.gameEngine.engine)
        IN  /\ \A i \in DOMAIN speeds : speeds[i] >= 50
            /\ \A i, j \in DOMAIN speeds : i <= j => speeds[j] <= speeds[i]

(* ------------------------------------------------------------------ *)
(* A game left to its ticks                                            *)
(* ------------------------------------------------------------------ *)

\* the pieces placed after which the ticks are followed no further
MaxPlaced == 3

\* the frames of time a game left to its ticks is followed for
MaxFairFrames == 150

\* the frame steps
FrameSteps == {Quantum, 2 * Quantum}

\* the next animation frame of the game comes d later: one is pending, and the
\* clock advances
FrameDue(d) ==
    /\ rafPending # {}
    /\ totalPiecesPlaced < MaxPlaced
    /\ now + d <= MaxFairFrames * Quantum
    /\ now' = now + d

\* an animation frame of a game the player leaves alone: every pending callback
\* runs gameLoop at the new clock value
FrameOfPlay ==
    /\ \E d \in FrameSteps :
        /\ FrameDue(d)
        /\ \E r \in runCallbacks(S, rafPending, now + d) : Engine(r)
    /\ UNCHANGED keyPresses

\* start() of the first game, and then its frames
NextFair ==
    \/ (now = 0 /\ Start)
    \/ FrameOfPlay

\* the frames keep arriving: while one is due, the clock eventually advances,
\* which only FrameOfPlay does
SpecFair ==
    Init /\ [][NextFair]_vars /\ WF_now(\E d \in FrameSteps : FrameDue(d))

\* C40: while the status stays playing and the frames keep arriving with the
\* clock advancing and no input, the piece that is active is eventually locked
\* (the count of placed pieces rises), for each of the first MaxPlaced pieces
C40_SpawnedPieceEventuallyLocked ==
    \A n \in 0..(MaxPlaced - 1) :
        (status = "playing" /\ currentPiece # NULL /\ totalPiecesPlaced = n)
            ~> (status # "playing" \/ totalPiecesPlaced > n)

\* the ticks alone have locked MaxPlaced pieces and the game goes on
C40_Witness ==
    /\ status = "playing"
    /\ totalPiecesPlaced = MaxPlaced
    /\ keyPresses = 0
    /\ getFilledBlockCount(board) > 0

====
